---- MODULE Spec2Model ----
(***************************************************************************)
(* The custom binary codec of Cadence values (encoding/custom):           *)
(* common_codec's primitives, value_codec's Decoder, the front-door       *)
(* CadenceCodec, and an encoder writing to the stream the decoder reads;   *)
(* and the item decoder of the rlp package.                                *)
(*                                                                         *)
(* Bytes are numbers 0..255.  TLC's integers are 32 bits wide, so the      *)
(* first byte of a 4-byte big-endian number that the model evaluates is    *)
(* below 128: the number then stays below 2^31.                            *)
(***************************************************************************)
EXTENDS Integers, Sequences, FiniteSets, TLC

VARIABLES
    buf,        \* the bytes of the stream: all that was written to the sink
    wlen,       \* LengthyWriter.length of the encoder's writer
    werr,       \* the error of the last write operation
    sent,       \* history: what the write operations were given, in order
    fault,      \* how the stream was cut or altered in transit, if it was
    location,   \* LocatedReader.location of the streaming decoder
    calls,      \* number of decode operations run on the stream
    out,        \* what the last decode operation returned
    rlp,        \* the rlp decoder: its input, its call stack, its result
    io          \* a LocatedReader and a LengthyWriter over arbitrary streams

vars == <<buf, wlen, werr, sent, fault, location, calls, out, rlp, io>>

----------------------------------------------------------------------------
(* Bounds of the model *)

MaxLen == 2          \* longest byte string / magnitude of a drawn value
MaxElems == 2        \* most elements (pairs) of a drawn array (dictionary)
MaxWrites == 2       \* write operations on one stream
MaxCalls == 2        \* successive Decoder calls on one stream
MaxInput == 3        \* longest input of the rlp decoder
MaxOps == 3          \* calls made of one LocatedReader and LengthyWriter
MaxChunk == 2        \* longest p of one Read or Write call

----------------------------------------------------------------------------
(* Helpers *)

Min(a, b) == IF a < b THEN a ELSE b

Zeros(n) == [i \in 1..n |-> 0]

\* Position of x in the sequence s (x occurs in s).
IndexOf(s, x) == CHOOSE i \in 1..Len(s) : s[i] = x

Range(s) == {s[i] : i \in 1..Len(s)}

\* The sequence s without its trailing zero bytes.
StripTrailingZeros(s) ==
    LET nz == {i \in 1..Len(s) : s[i] # 0}
    IN  IF nz = {} THEN <<>>
        ELSE SubSeq(s, 1, CHOOSE i \in nz : \A j \in nz : j <= i)

\* The sequence s without its leading zero bytes.
StripLeadingZeros(s) ==
    LET nz == {i \in 1..Len(s) : s[i] # 0}
    IN  IF nz = {} THEN <<>>
        ELSE SubSeq(s, CHOOSE i \in nz : \A j \in nz : i <= j, Len(s))

\* A Go byte slice (or string) of n bytes: `data` followed by zero bytes.
\* make([]byte, n) is zero-filled, and a Read fills a prefix of it.
GoBytes(data, n) == [len |-> n, data |-> StripTrailingZeros(data)]

\* The bytes of a Go byte slice, written out.
BytesOf(g) == g.data \o Zeros(g.len - Len(g.data))

Nil == "nil"

----------------------------------------------------------------------------
(* Tags: value_codec/common.go *)

\* iota: EncodedValueUnknown is 0, the names below follow from 1.
EncodedValueNames ==
    << "Void", "Optional", "Bool", "String", "Bytes", "Character", "Address",
       "Int", "Int8", "Int16", "Int32", "Int64", "Int128", "Int256",
       "UInt", "UInt8", "UInt16", "UInt32", "UInt64", "UInt128", "UInt256",
       "Word8", "Word16", "Word32", "Word64", "Fix64", "UFix64",
       "Array", "Dictionary", "Struct", "Resource", "Evebt", "Contract",
       "Link", "Path", "Capability", "Enum" >>

\* decode.go names EncodedValueVariableArray and EncodedValueConstantArray,
\* which common.go does not declare; they continue the enumeration.
EncodedValueArrayNames == << "VariableArray", "ConstantArray" >>

AllValueNames == EncodedValueNames \o EncodedValueArrayNames

EncodedValue(name) == IndexOf(AllValueNames, name)

AssignedValueTags == 1..Len(AllValueNames)

\* iota: EncodedTypeUnknown is 0, the names below follow from 1.
EncodedTypeNames ==
    << "Void", "Never", "Bool", "Array", "Optional", "String", "Character",
       "Bytes", "Address", "Number", "SignedNumber", "Integer",
       "SignedInteger", "FixedPoint", "SignedFixedPoint",
       "Int", "Int8", "Int16", "Int32", "Int64", "Int128", "Int256",
       "UInt", "UInt8", "UInt16", "UInt32", "UInt64", "UInt128", "UInt256",
       "Word8", "Word16", "Word32", "Word64", "Fix64", "UFix64",
       "VariableSizedArray", "ConstantSizedArray", "Dictionary",
       "Struct", "Resource", "Event", "Contract",
       "StructInterface", "ResourceInterface", "ContractInterface",
       "Function", "Reference", "Restricted", "Block",
       "CapabilityPath", "StoragePath", "PublicPath", "PrivatePath",
       "Capability", "Enum", "AuthAccount", "PublicAccount",
       "DeployedContract", "AuthAccountContracts", "PublicAccountContracts",
       "AuthAccountKeys", "PublicAccountKeys",
       "AnyType", "AnyStructType", "AnyResourceType",
       "Arrau", "Composite", "Interface", "MetaType" >>

EncodedType(name) == IndexOf(EncodedTypeNames, name)

AssignedTypeTags == 1..Len(EncodedTypeNames)

\* common_codec/common.go: EncodedBoolUnknown, EncodedBoolFalse, EncodedBoolTrue
EncodedBoolFalse == 1
EncodedBoolTrue == 2

\* runtime/common: AddressLength
AddressLength == 8

----------------------------------------------------------------------------
(* Readers: common_codec/common.go, LocatedReader *)

\* A LocatedReader over a byte source: `kind` is the source ("Reader" for the
\* bytes.Reader that Decode builds, "Buffer" for a bytes.Buffer shared with
\* an encoder), `buf` its bytes and `pos` the reader's location.
\* The reader record also carries the memoryGauge of the Decoder that reads
\* through it; nil is the gauge of a decoder that is given none.
NewLocatedReader(kind, bytes, at) ==
    [kind |-> kind, buf |-> bytes, pos |-> at, gauge |-> Nil]

\* A gauge that has no memory left to grant.
ExhaustedGauge == "exhausted"

\* NewDecoder(memoryGauge, r)
NewDecoder(memoryGauge, r) == [r EXCEPT !.gauge = memoryGauge]

\* A construction by a NewMetered... function with the gauge of the decoder:
\* a gauge with no memory left fails it.
Metered(res) ==
    IF res.err = Nil /\ res.r.gauge = ExhaustedGauge
    THEN [res EXCEPT !.err = "memory limit"]
    ELSE res

\* A reader that counts the bytes asked for in place of the bytes read.
ReadCountingAsked(r, n) ==
    LET avail == Len(r.buf) - r.pos
    IN  IF avail <= 0
        THEN [r |-> r, data |-> <<>>,
              err |-> IF r.kind = "Buffer" /\ n = 0 THEN Nil ELSE "EOF"]
        ELSE [r |-> [r EXCEPT !.pos = r.pos + n],
              data |-> SubSeq(r.buf, r.pos + 1, r.pos + Min(n, avail)),
              err |-> Nil]

\* LocatedReader.Read(p) with len(p) = n: one Read of the source, which
\* copies the bytes it has, at most n, and reports io.EOF only when it has
\* none.  A bytes.Reader at its end reports io.EOF also for n = 0; an empty
\* bytes.Buffer reports no error for n = 0.  `data` is the prefix of p that
\* was filled; the rest of p keeps the zeros of make([]byte, n).
Read(r, n) ==
    LET avail == Len(r.buf) - r.pos
        got == Min(n, avail)
    IN  IF avail <= 0
        THEN [r |-> r, data |-> <<>>,
              err |-> IF r.kind = "Buffer" /\ n = 0 THEN Nil ELSE "EOF"]
        ELSE [r |-> [r EXCEPT !.pos = r.pos + got],
              data |-> SubSeq(r.buf, r.pos + 1, r.pos + got),
              err |-> Nil]

\* io.ReadFull, used by binary.Read: Reads until n bytes are in; io.EOF when
\* there was nothing, io.ErrUnexpectedEOF when there was less than n.
ReadFull(r, n) ==
    LET Checked(x) ==
            IF x.err # Nil THEN x
            ELSE IF Len(x.data) < n THEN [x EXCEPT !.err = "ErrUnexpectedEOF"]
            ELSE x
    IN  Checked(Read(r, n))

\* binary.BigEndian.Uint32 / Uint16 / a byte: the number a big-endian byte
\* sequence stands for.
RECURSIVE BigEndian(_)
BigEndian(b) ==
    IF b = <<>> THEN 0
    ELSE BigEndian(SubSeq(b, 1, Len(b) - 1)) * 256 + b[Len(b)]

\* The w big-endian bytes of the number n, 0 <= n < 256^w.
RECURSIVE PutBigEndian(_, _)
PutBigEndian(n, w) ==
    IF w = 0 THEN <<>> ELSE Append(PutBigEndian(n \div 256, w - 1), n % 256)

----------------------------------------------------------------------------
(* Primitives: common_codec/common.go *)

\* A Go int, 64 bits in two's complement, as four 16-bit limbs, the most
\* significant first: a length may be any int, and 2^32 does not fit a
\* number of the model.
GoInt(n) ==
    << IF n < 0 THEN 65535 ELSE 0, IF n < 0 THEN 65535 ELSE 0,
       (n \div 65536) % 65536, n % 65536 >>

\* length < 0
IsNegative(length) == length[1] >= 32768

\* The lengths an unsigned 32-bit count can hold: 0 <= length < 2^32.
InUint32(length) == length[1] = 0 /\ length[2] = 0

\* The number of the model that a Go int between 0 and 2^31 - 1 is.
IntOf(length) == length[3] * 65536 + length[4]

\* A conversion to uint16 in place of uint32: the two high bytes are lost.
Uint32BytesNarrowed(length) ==
    <<0, 0, length[4] \div 256, length[4] % 256>>

\* binary.Write(w, binary.BigEndian, uint32(length)): the conversion keeps
\* the low 32 bits, which are written most significant byte first.
Uint32Bytes(length) ==
    <<length[3] \div 256, length[3] % 256, length[4] \div 256, length[4] % 256>>

EncodeBool(boolean) == << IF boolean THEN EncodedBoolTrue ELSE EncodedBoolFalse >>

\* A fault to tell DecodeBool from: whatever is not the true byte is false.
DecodeBoolTrueOrFalse(r) ==
    LET Switch(x) ==
            IF x.err # Nil THEN [r |-> x.r, v |-> FALSE, err |-> x.err]
            ELSE [r |-> x.r, v |-> (x.data[1] = EncodedBoolTrue), err |-> Nil]
    IN  Switch(Read(r, 1))

DecodeBool(r) ==
    LET Switch(x) ==
            IF x.err # Nil THEN [r |-> x.r, v |-> FALSE, err |-> x.err]
            ELSE IF x.data[1] = EncodedBoolFalse THEN [r |-> x.r, v |-> FALSE, err |-> Nil]
            ELSE IF x.data[1] = EncodedBoolTrue THEN [r |-> x.r, v |-> TRUE, err |-> Nil]
            ELSE [r |-> x.r, v |-> FALSE, err |-> "invalid boolean value"]
    IN  Switch(Read(r, 1))

\* A fault to tell EncodeLength from: the sign is not looked at, and the
\* length is written as uint32(length) would write it.
EncodeLengthUnchecked(length) ==
    [bytes |-> Uint32Bytes(length), err |-> Nil]

\* EncodeLength of a Go int: what is written to the sink, and the error
\* returned.
EncodeLength(length) ==
    IF IsNegative(length)
    THEN [bytes |-> <<>>, err |-> "cannot encode length below zero"]
    ELSE [bytes |-> Uint32Bytes(length), err |-> Nil]

\* DecodeLength: one Read into a zero-filled slice of 4 bytes, then
\* int(binary.BigEndian.Uint32(b)), a Go int.
DecodeLength(r) ==
    LET Uint32(b) == <<0, 0, b[1] * 256 + b[2], b[3] * 256 + b[4]>>
        FromRead(x) ==
            IF x.err # Nil THEN [r |-> x.r, v |-> GoInt(0), err |-> x.err]
            ELSE [r |-> x.r, v |-> Uint32(x.data \o Zeros(4 - Len(x.data))), err |-> Nil]
    IN  FromRead(Read(r, 4))

\* EncodeBytes of a byte slice of the model.
EncodeBytes(g) ==
    LET WithLength(l) ==
            IF l.err # Nil THEN l
            ELSE [bytes |-> l.bytes \o BytesOf(g), err |-> Nil]
    IN  WithLength(EncodeLength(GoInt(g.len)))

DecodeBytes(r) ==
    LET Filled(l, x) == [r |-> x.r, v |-> GoBytes(x.data, IntOf(l.v)), err |-> x.err]
        WithLength(l) ==
            IF l.err # Nil THEN [r |-> l.r, v |-> GoBytes(<<>>, 0), err |-> l.err]
            ELSE Filled(l, Read(l.r, IntOf(l.v)))
    IN  WithLength(DecodeLength(r))

EncodeString(g) == EncodeBytes(g)

DecodeString(r) ==
    LET StringOf(b) == IF b.err # Nil THEN [b EXCEPT !.v = GoBytes(<<>>, 0)] ELSE b
    IN  StringOf(DecodeBytes(r))

EncodeAddress(a) == a

DecodeAddress(r) ==
    LET BytesToAddress(x) ==
            IF x.err # Nil THEN [r |-> x.r, v |-> Zeros(AddressLength), err |-> x.err]
            ELSE [r |-> x.r, v |-> x.data \o Zeros(AddressLength - Len(x.data)),
                  err |-> Nil]
    IN  BytesToAddress(Read(r, AddressLength))

\* The number that w big-endian bytes stand for in Go, two's complement when
\* signed, kept as two limbs: hi * 2^32 + lo.  A number of 32 bits or less
\* has hi = 0 and its value in lo.
NumberOf(b, signed) ==
    LET val(x) == IF signed /\ x[1] >= 128
                  THEN BigEndian(<<x[1] - 256>> \o Tail(x))
                  ELSE BigEndian(x)
    IN  IF Len(b) = 8
        THEN [hi |-> val(SubSeq(b, 1, 4)), lo |-> BigEndian(SubSeq(b, 5, 8))]
        ELSE [hi |-> 0, lo |-> val(b)]

\* DecodeInt64, DecodeUInt64 and their other widths: binary.Read of w bytes,
\* which fails on a short read and leaves the number 0.
DecodeNumber(r, w, signed) ==
    LET Number(x) ==
            IF x.err # Nil THEN [r |-> x.r, v |-> NumberOf(Zeros(w), signed), err |-> x.err]
            ELSE [r |-> x.r, v |-> NumberOf(x.data, signed), err |-> Nil]
    IN  Number(ReadFull(r, w))

\* EncodeInt64, EncodeUInt64 and their other widths: binary.Write of the
\* w big-endian bytes of a non-negative number of the model.
EncodeNumber(n, w) ==
    IF w = 8 THEN PutBigEndian(n.hi, 4) \o PutBigEndian(n.lo, 4)
    ELSE PutBigEndian(n.lo, w)

\* A big.Int: the sign and the magnitude mag * 256^shift, where `mag` is a
\* big-endian byte sequence with no zero byte at either end.
\* big.Int.SetBytes drops leading zero bytes, and zero is never negative.
BigOf(neg, g) ==
    LET SetBytes(mag) ==
            IF mag = <<>> THEN [neg |-> FALSE, mag |-> <<>>, shift |-> 0]
            ELSE [neg |-> neg, mag |-> mag, shift |-> g.len - Len(g.data)]
    IN  SetBytes(StripLeadingZeros(g.data))

\* A big integer on the wire: sign bool, then the length-prefixed big-endian
\* magnitude.
DecodeBigInt(r) ==
    LET zero == BigOf(FALSE, GoBytes(<<>>, 0))
        WithMagnitude(s, m) ==
            IF m.err # Nil THEN [r |-> m.r, v |-> zero, err |-> m.err]
            ELSE [r |-> m.r, v |-> BigOf(s.v, m.v), err |-> Nil]
        WithSign(s) ==
            IF s.err # Nil THEN [r |-> s.r, v |-> zero, err |-> s.err]
            ELSE WithMagnitude(s, DecodeBytes(s.r))
    IN  WithSign(DecodeBool(r))

EncodeBigInt(i) ==
    LET WithMagnitude(m) ==
            IF m.err # Nil THEN m
            ELSE [bytes |-> EncodeBool(i.neg) \o m.bytes, err |-> Nil]
    IN  WithMagnitude(EncodeBytes(GoBytes(i.mag, Len(i.mag) + i.shift)))

----------------------------------------------------------------------------
(* Types: value_codec/decode.go, Decoder.DecodeType *)

NilType == [k |-> "nil"]

\* The type identifiers whose case in DecodeType builds a type without
\* reading further.
SimpleTypeNames ==
    { "Void", "Never", "Bool", "String", "Character", "Bytes", "Address",
      "Number", "SignedNumber", "Integer", "SignedInteger", "FixedPoint",
      "SignedFixedPoint", "Int", "Int8", "Int16", "Int32", "Int64", "Int128",
      "Int256", "UInt128", "UInt256", "UInt", "UInt8", "UInt16", "UInt32",
      "UInt64", "Word8", "Word16", "Word32", "Word64", "Fix64", "UFix64",
      "AnyType", "AnyStructType", "AnyResourceType" }

\* Decoder.read(howManyBytes): a zero-filled slice, filled by one Read.
DecoderRead(r, howManyBytes) ==
    LET Filled(x) ==
            [r |-> x.r, v |-> x.data \o Zeros(howManyBytes - Len(x.data)), err |-> x.err]
    IN  Filled(Read(r, howManyBytes))

\* Decoder.DecodeLength
DecoderDecodeLength(r) ==
    LET Uint32(b) ==
            IF b.err # Nil THEN [r |-> b.r, v |-> 0, err |-> b.err]
            ELSE [r |-> b.r, v |-> BigEndian(b.v), err |-> Nil]
    IN  Uint32(DecoderRead(r, 4))

\* Decoder.DecodeTypeIdentifier: the byte read, with the error of the read.
DecodeTypeIdentifier(r) ==
    LET Identifier(b) == [r |-> b.r, v |-> b.v[1], err |-> b.err]
    IN  Identifier(DecoderRead(r, 1))

\* A switch whose default arm builds the Any type.
TypeNameOfDefaultAny(id) ==
    IF id \in AssignedTypeTags THEN EncodedTypeNames[id] ELSE "AnyType"

TypeNameOf(id) ==
    IF id \in AssignedTypeTags THEN EncodedTypeNames[id] ELSE "Unknown"

RECURSIVE DecodeType(_)
RECURSIVE DecodeOptionalType(_)
RECURSIVE DecodeVariableArrayType(_)
RECURSIVE DecodeConstantArrayType(_)
RECURSIVE DecodeDictionaryType(_)

DecodeType(r) ==
    LET Switch(id, name) ==
            CASE name \in SimpleTypeNames ->
                    Metered([r |-> id.r, v |-> [k |-> name], err |-> id.err])
              [] name = "Optional" -> DecodeOptionalType(id.r)
              [] name = "VariableSizedArray" -> DecodeVariableArrayType(id.r)
              [] name = "ConstantSizedArray" -> DecodeConstantArrayType(id.r)
              [] name = "Dictionary" -> DecodeDictionaryType(id.r)
              [] OTHER -> [r |-> id.r, v |-> NilType, err |-> "unknown type identifier"]
        WithIdentifier(id) == Switch(id, TypeNameOf(id.v))
    IN  WithIdentifier(DecodeTypeIdentifier(r))

DecodeOptionalType(r) ==
    LET WithElementType(elementType) ==
            IF elementType.err # Nil
            THEN [elementType EXCEPT !.v = [k |-> "Optional", elem |-> NilType]]
            ELSE Metered([elementType EXCEPT
                            !.v = [k |-> "Optional", elem |-> elementType.v]])
        WithIsNil(isNil) ==
            IF isNil.v \/ isNil.err # Nil
            THEN [r |-> isNil.r, v |-> [k |-> "Optional", elem |-> NilType],
                  err |-> isNil.err]
            ELSE WithElementType(DecodeType(isNil.r))
    IN  WithIsNil(DecodeBool(r))

DecodeVariableArrayType(r) ==
    LET WithElementType(elementType) ==
            IF elementType.err # Nil
            THEN [elementType EXCEPT !.v = [k |-> "VariableSizedArray", elem |-> NilType]]
            ELSE Metered([elementType EXCEPT
                            !.v = [k |-> "VariableSizedArray", elem |-> elementType.v]])
    IN  WithElementType(DecodeType(r))

DecodeConstantArrayType(r) ==
    LET zero == [k |-> "ConstantSizedArray", elem |-> NilType, size |-> 0]
        WithSize(elementType, size) ==
            IF size.err # Nil THEN [size EXCEPT !.v = zero]
            ELSE Metered([size EXCEPT !.v = [k |-> "ConstantSizedArray",
                                             elem |-> elementType.v, size |-> size.v]])
        WithElementType(elementType) ==
            IF elementType.err # Nil THEN [elementType EXCEPT !.v = zero]
            ELSE WithSize(elementType, DecoderDecodeLength(elementType.r))
    IN  WithElementType(DecodeType(r))

DecodeDictionaryType(r) ==
    LET zero == [k |-> "Dictionary", key |-> NilType, elem |-> NilType]
        WithElementType(keyType, elementType) ==
            IF elementType.err # Nil THEN [elementType EXCEPT !.v = zero]
            ELSE Metered([elementType EXCEPT
                            !.v = [k |-> "Dictionary",
                                   key |-> keyType.v, elem |-> elementType.v]])
        WithKeyType(keyType) ==
            IF keyType.err # Nil THEN [keyType EXCEPT !.v = zero]
            ELSE WithElementType(keyType, DecodeType(keyType.r))
    IN  WithKeyType(DecodeType(r))

----------------------------------------------------------------------------
(* Values: value_codec/decode.go, Decoder.DecodeValue *)

\* The nil cadence.Value
NilValue == [k |-> "nil"]

TextNames == {"String", "Bytes", "Character"}

BigNames == {"Int", "Int128", "Int256", "UInt", "UInt128", "UInt256"}

FixedNames ==
    { "Int8", "Int16", "Int32", "Int64", "UInt8", "UInt16", "UInt32", "UInt64",
      "Word8", "Word16", "Word32", "Word64", "Fix64", "UFix64" }

\* The width in bytes of the Go number type that DecodeNumber is called with.
WidthOf(name) ==
    CASE name \in {"Int8", "UInt8", "Word8"} -> 1
      [] name \in {"Int16", "UInt16", "Word16"} -> 2
      [] name \in {"Int32", "UInt32", "Word32"} -> 4
      [] OTHER -> 8

SignedOf(name) == name \in {"Int8", "Int16", "Int32", "Int64", "Fix64"}

\* A fault to tell ValueNameOf from: a switch whose default arm is Void.
ValueNameOfDefaultVoid(id) ==
    IF id \in AssignedValueTags THEN AllValueNames[id] ELSE "Void"

ValueNameOf(id) ==
    IF id \in AssignedValueTags THEN AllValueNames[id] ELSE "Unknown"

\* Decoder.DecodeIdentifier
DecodeIdentifier(r) ==
    LET Identifier(b) ==
            IF b.err # Nil THEN [r |-> b.r, v |-> 0, err |-> b.err]
            ELSE [r |-> b.r, v |-> b.v[1], err |-> Nil]
    IN  Identifier(DecoderRead(r, 1))

\* Decoder.DecodeBool
DecoderDecodeBool(r) ==
    LET NewBool(boolean) ==
            Metered([boolean EXCEPT !.v = [k |-> "Bool", b |-> boolean.v]])
    IN  NewBool(DecodeBool(r))

\* Decoder.DecodeString, DecodeCharacter, DecodeBytes
DecodeText(r, name) ==
    LET NewText(s) ==
            IF s.err # Nil THEN [s EXCEPT !.v = [k |-> name, s |-> GoBytes(<<>>, 0)]]
            ELSE IF name = "Bytes" THEN [s EXCEPT !.v = [k |-> name, s |-> s.v]]
            ELSE Metered([s EXCEPT !.v = [k |-> name, s |-> s.v]])
    IN  NewText(IF name = "Bytes" THEN DecodeBytes(r) ELSE DecodeString(r))

\* Decoder.DecodeAddress
DecoderDecodeAddress(r) ==
    LET NewAddress(address) ==
            Metered([address EXCEPT !.v = [k |-> "Address", a |-> address.v]])
    IN  NewAddress(DecodeAddress(r))

\* Decoder.DecodeInt, DecodeInt128, DecodeInt256, DecodeUInt, DecodeUInt128,
\* DecodeUInt256
DecodeBig(r, name) ==
    LET NewBig(i) == Metered([i EXCEPT !.v = [k |-> name, i |-> i.v]])
    IN  NewBig(DecodeBigInt(r))

\* Decoder.DecodeInt8 .. DecodeUFix64
DecodeFixed(r, name) ==
    LET NewFixed(i) == [i EXCEPT !.v = [k |-> name, n |-> i.v]]
    IN  NewFixed(DecodeNumber(r, WidthOf(name), SignedOf(name)))

RECURSIVE DecodeValue(_)
RECURSIVE DecodeOptional(_)
RECURSIVE DecodeElements(_, _, _)
RECURSIVE DecodePairs(_, _, _)
RECURSIVE DecodeVariableArray(_, _)
RECURSIVE DecodeConstantArray(_, _)
RECURSIVE DecodeDictionary(_)

DecodeValue(r) ==
    LET VariableArray(t) ==
            IF t.err # Nil THEN [t EXCEPT !.v = NilValue]
            ELSE DecodeVariableArray(t.r, t.v)
        ConstantArray(t) ==
            IF t.err # Nil THEN [t EXCEPT !.v = NilValue]
            ELSE DecodeConstantArray(t.r, t.v)
        Switch(name, at) ==
            CASE name = "Void" -> Metered([r |-> at, v |-> [k |-> "Void"], err |-> Nil])
              [] name = "Optional" -> DecodeOptional(at)
              [] name = "Bool" -> DecoderDecodeBool(at)
              [] name \in TextNames -> DecodeText(at, name)
              [] name = "Address" -> DecoderDecodeAddress(at)
              [] name \in BigNames -> DecodeBig(at, name)
              [] name \in FixedNames -> DecodeFixed(at, name)
              [] name = "VariableArray" -> VariableArray(DecodeVariableArrayType(at))
              [] name = "ConstantArray" -> ConstantArray(DecodeConstantArrayType(at))
              [] name = "Dictionary" -> DecodeDictionary(at)
              [] OTHER -> [r |-> at, v |-> NilValue, err |-> "unknown cadence.Value"]
        WithIdentifier(identifier) ==
            IF identifier.err # Nil
            THEN [r |-> identifier.r, v |-> NilValue, err |-> identifier.err]
            ELSE Switch(ValueNameOf(identifier.v), identifier.r)
    IN  WithIdentifier(DecodeIdentifier(r))

\* A fault to tell DecodeOptional from: the error of the inner value is
\* dropped.
DecodeOptionalForgiving(r) ==
    LET WithInnerValue(innerValue) ==
            [innerValue EXCEPT !.v = [k |-> "Optional", v |-> innerValue.v], !.err = Nil]
        WithIsNil(isNil) ==
            IF isNil.v.b \/ isNil.err # Nil
            THEN [isNil EXCEPT !.v = [k |-> "Optional", v |-> NilValue]]
            ELSE WithInnerValue(DecodeValue(isNil.r))
    IN  WithIsNil(DecoderDecodeBool(r))

DecodeOptional(r) ==
    LET WithInnerValue(innerValue) ==
            Metered([innerValue EXCEPT !.v = [k |-> "Optional", v |-> innerValue.v]])
        WithIsNil(isNil) ==
            IF isNil.v.b \/ isNil.err # Nil
            THEN [isNil EXCEPT !.v = [k |-> "Optional", v |-> NilValue]]
            ELSE WithInnerValue(DecodeValue(isNil.r))
    IN  WithIsNil(DecoderDecodeBool(r))

\* The constructor passed to NewMeteredArray: `size` values, one after the
\* other, stopping at the first that fails.
DecodeElements(r, size, elements) ==
    LET WithElement(elementValue) ==
            IF elementValue.err # Nil
            THEN [r |-> elementValue.r, v |-> elements, err |-> elementValue.err]
            ELSE DecodeElements(elementValue.r, size, Append(elements, elementValue.v))
    IN  IF Len(elements) >= size THEN [r |-> r, v |-> elements, err |-> Nil]
        ELSE WithElement(DecodeValue(r))

\* A fault to tell DecodePairs from: each pair is put before the ones read
\* so far.
RECURSIVE DecodePairsPrepending(_, _, _)
DecodePairsPrepending(r, size, pairs) ==
    LET WithValue(key, value) ==
            IF value.err # Nil THEN [r |-> value.r, v |-> pairs, err |-> value.err]
            ELSE DecodePairsPrepending(value.r, size,
                                       <<[key |-> key.v, value |-> value.v]>> \o pairs)
        WithKey(key) ==
            IF key.err # Nil THEN [r |-> key.r, v |-> pairs, err |-> key.err]
            ELSE WithValue(key, DecodeValue(key.r))
    IN  IF Len(pairs) >= size THEN [r |-> r, v |-> pairs, err |-> Nil]
        ELSE WithKey(DecodeValue(r))

\* The constructor passed to NewMeteredDictionary; each pair is made by
\* NewMeteredKeyValuePair.
DecodePairs(r, size, pairs) ==
    LET WithPair(pair) ==
            IF pair.err # Nil THEN [r |-> pair.r, v |-> pairs, err |-> pair.err]
            ELSE DecodePairs(pair.r, size, Append(pairs, pair.v))
        WithValue(key, value) ==
            IF value.err # Nil THEN [r |-> value.r, v |-> pairs, err |-> value.err]
            ELSE WithPair(Metered([value EXCEPT
                                     !.v = [key |-> key.v, value |-> value.v]]))
        WithKey(key) ==
            IF key.err # Nil THEN [r |-> key.r, v |-> pairs, err |-> key.err]
            ELSE WithValue(key, DecodeValue(key.r))
    IN  IF Len(pairs) >= size THEN [r |-> r, v |-> pairs, err |-> Nil]
        ELSE WithKey(DecodeValue(r))

\* NewMeteredArray and WithType: the elements, or none when the constructor
\* failed, with the array type attached.
DecodeVariableArray(r, arrayType) ==
    LET WithElements(elements) ==
            IF elements.err # Nil
            THEN [elements EXCEPT !.v = [k |-> "Array", t |-> arrayType, vs |-> <<>>]]
            ELSE Metered([elements EXCEPT
                            !.v = [k |-> "Array", t |-> arrayType, vs |-> elements.v]])
        WithSize(size) ==
            IF size.err # Nil
            THEN [size EXCEPT !.v = [k |-> "Array", t |-> NilType, vs |-> <<>>]]
            ELSE WithElements(DecodeElements(size.r, size.v, <<>>))
    IN  WithSize(DecoderDecodeLength(r))

\* A fault to tell DecodeConstantArray from: the elements run out and the
\* array is returned with the ones that were there.
DecodeConstantArrayLenient(r, arrayType) ==
    LET WithElements(elements) ==
            [elements EXCEPT !.v = [k |-> "Array", t |-> arrayType, vs |-> elements.v],
                             !.err = Nil]
    IN  WithElements(DecodeElements(r, arrayType.size, <<>>))

DecodeConstantArray(r, arrayType) ==
    LET WithElements(elements) ==
            IF elements.err # Nil
            THEN [elements EXCEPT !.v = [k |-> "Array", t |-> arrayType, vs |-> <<>>]]
            ELSE Metered([elements EXCEPT
                            !.v = [k |-> "Array", t |-> arrayType, vs |-> elements.v]])
    IN  WithElements(DecodeElements(r, arrayType.size, <<>>))

DecodeDictionary(r) ==
    LET zero == [k |-> "Dictionary", t |-> NilType, ps |-> <<>>]
        WithPairs(dictType, pairs) ==
            IF pairs.err # Nil
            THEN [pairs EXCEPT !.v = [k |-> "Dictionary", t |-> dictType.v, ps |-> <<>>]]
            ELSE Metered([pairs EXCEPT
                            !.v = [k |-> "Dictionary", t |-> dictType.v, ps |-> pairs.v]])
        WithSize(dictType, size) ==
            IF size.err # Nil THEN [size EXCEPT !.v = zero]
            ELSE WithPairs(dictType, DecodePairs(size.r, size.v, <<>>))
        WithType(dictType) ==
            IF dictType.err # Nil THEN [dictType EXCEPT !.v = zero]
            ELSE WithSize(dictType, DecoderDecodeLength(dictType.r))
    IN  WithType(DecodeDictionaryType(r))

\* Decoder.Decode
DecoderDecode(r) == DecodeValue(r)

\* Decode(gauge, b): a decoder over a bytes.Reader of b; no value on error.
Decode(gauge, b) ==
    LET Returned(v) == IF v.err # Nil THEN [v EXCEPT !.v = NilValue] ELSE v
    IN  Returned(DecoderDecode(NewDecoder(gauge, NewLocatedReader("Reader", b, 0))))

----------------------------------------------------------------------------
(* The encoder: byte layout of types and values on the wire *)

RECURSIVE EncodeType(_)
EncodeType(t) ==
    CASE t.k = "Optional" ->
            <<EncodedType("Optional")>> \o EncodeBool(t.elem = NilType)
                \o (IF t.elem = NilType THEN <<>> ELSE EncodeType(t.elem))
      [] t.k = "VariableSizedArray" ->
            <<EncodedType("VariableSizedArray")>> \o EncodeType(t.elem)
      [] t.k = "ConstantSizedArray" ->
            <<EncodedType("ConstantSizedArray")>> \o EncodeType(t.elem)
                \o EncodeLength(GoInt(t.size)).bytes
      [] t.k = "Dictionary" ->
            <<EncodedType("Dictionary")>> \o EncodeType(t.key) \o EncodeType(t.elem)
      [] OTHER -> <<EncodedType(t.k)>>

RECURSIVE EncodeValue(_)
RECURSIVE EncodeValues(_)
RECURSIVE EncodePairs(_)

\* An array writes its element type and its element count, a constant-sized
\* one as well as a variable-sized one.
EncodeArray(v) ==
    <<EncodedValue(IF v.t.k = "ConstantSizedArray"
                   THEN "ConstantArray" ELSE "VariableArray")>>
        \o EncodeType(v.t.elem) \o EncodeLength(GoInt(Len(v.vs))).bytes
        \o EncodeValues(v.vs)

\* The composite variants of the value model.
CompositeNames == {"Struct", "Resource", "Event", "Contract", "Enum"}

\* The value tag of a composite: the enumeration spells the Event tag
\* EncodedValueEvebt.
CompositeTagName(k) == IF k = "Event" THEN "Evebt" ELSE k

\* A composite type on the wire: the REPL location (its prefix byte 'R'), the
\* qualified identifier, for an Enum its raw type, the fields as a non-nil
\* list of (identifier, type), and a non-nil, empty list of initializers.
RECURSIVE EncodeFields(_)
EncodeFields(fields) ==
    IF fields = <<>> THEN <<>>
    ELSE EncodeString(Head(fields).id).bytes \o EncodeType(Head(fields).t)
            \o EncodeFields(Tail(fields))

EncodeCompositeType(t) ==
    <<82>> \o EncodeString(t.id).bytes
        \o (IF t.k = "Enum" THEN EncodeType(t.raw) ELSE <<>>)
        \o EncodeBool(FALSE) \o EncodeLength(GoInt(Len(t.fields))).bytes \o EncodeFields(t.fields)
        \o EncodeBool(FALSE) \o EncodeLength(GoInt(0)).bytes

\* A composite value: its tag, its type, then one value per declared field.
EncodeComposite(v) ==
    <<EncodedValue(CompositeTagName(v.k))>> \o EncodeCompositeType(v.t)
        \o EncodeValues(v.fs)

EncodeValue(v) ==
    CASE v.k \in CompositeNames -> EncodeComposite(v)
      [] v.k = "Void" -> <<EncodedValue("Void")>>
      [] v.k = "Optional" ->
            <<EncodedValue("Optional")>> \o EncodeBool(v.v = NilValue)
                \o (IF v.v = NilValue THEN <<>> ELSE EncodeValue(v.v))
      [] v.k = "Bool" -> <<EncodedValue("Bool")>> \o EncodeBool(v.b)
      [] v.k \in TextNames -> <<EncodedValue(v.k)>> \o EncodeBytes(v.s).bytes
      [] v.k = "Address" -> <<EncodedValue("Address")>> \o EncodeAddress(v.a)
      [] v.k \in BigNames -> <<EncodedValue(v.k)>> \o EncodeBigInt(v.i).bytes
      [] v.k \in FixedNames -> <<EncodedValue(v.k)>> \o EncodeNumber(v.n, WidthOf(v.k))
      [] v.k = "Array" -> EncodeArray(v)
      [] v.k = "Dictionary" ->
            <<EncodedValue("Dictionary")>> \o EncodeType(v.t.key) \o EncodeType(v.t.elem)
                \o EncodeLength(GoInt(Len(v.ps))).bytes \o EncodePairs(v.ps)

EncodeValues(vs) ==
    IF vs = <<>> THEN <<>> ELSE EncodeValue(Head(vs)) \o EncodeValues(Tail(vs))

EncodePairs(ps) ==
    IF ps = <<>> THEN <<>>
    ELSE EncodeValue(Head(ps).key) \o EncodeValue(Head(ps).value) \o EncodePairs(Tail(ps))

----------------------------------------------------------------------------
(* The values, types and bytes the operations are given *)

SeqsUpTo(S, n) == UNION {[1..m -> S] : m \in 0..n}

PayloadBytes == {0, 65}

Strings == {GoBytes(b, Len(b)) : b \in SeqsUpTo(PayloadBytes, MaxLen)}

\* Types that the enumeration declares a tag for and that carry no payload,
\* but that DecodeType has no case for.
OtherScalarNames ==
    { "CapabilityPath", "StoragePath", "PublicPath", "PrivatePath",
      "AuthAccount", "PublicAccount", "DeployedContract", "MetaType" }

ScalarTypes == {[k |-> n] : n \in SimpleTypeNames \cup OtherScalarNames}

ElemTypes ==
    { [k |-> "AnyType"], [k |-> "AnyStructType"],
      [k |-> "Optional", elem |-> [k |-> "Bool"]] }

ArrayTypes ==
    {[k |-> "VariableSizedArray", elem |-> t] : t \in ElemTypes}
    \cup {[k |-> "ConstantSizedArray", elem |-> t, size |-> n] :
            t \in ElemTypes, n \in 0..MaxElems}

DictionaryTypes == {[k |-> "Dictionary", key |-> a, elem |-> b] : a, b \in ElemTypes}

Types ==
    ScalarTypes
    \cup {[k |-> "Optional", elem |-> t] : t \in ElemTypes \cup {NilType}}
    \cup ArrayTypes \cup DictionaryTypes
    \cup {[k |-> "VariableSizedArray", elem |-> t] : t \in ArrayTypes}

\* 0, 4, -4 and 256
BigInts ==
    { BigOf(FALSE, GoBytes(<<>>, 0)), BigOf(FALSE, GoBytes(<<4>>, 1)),
      BigOf(TRUE, GoBytes(<<4>>, 1)), BigOf(FALSE, GoBytes(<<1, 0>>, 2)) }

FixedNumbers(name) ==
    {[hi |-> 0, lo |-> 0], [hi |-> 0, lo |-> 99]}
    \cup (IF WidthOf(name) = 8 THEN {[hi |-> 1, lo |-> 0]} ELSE {})

Leaves ==
    {[k |-> "Void"]}
    \cup {[k |-> "Bool", b |-> b] : b \in BOOLEAN}
    \cup {[k |-> n, s |-> g] : n \in TextNames, g \in Strings}
    \cup {[k |-> "Address", a |-> a] : a \in {Zeros(AddressLength), <<1, 2, 3, 4, 5, 6, 7, 8>>}}
    \cup {[k |-> n, i |-> i] : n \in BigNames, i \in BigInts}
    \cup UNION {{[k |-> n, n |-> x] : x \in FixedNumbers(n)} : n \in FixedNames}

\* The values drawn as array elements, dictionary values and later writes.
ElemValues ==
    { [k |-> "Void"],
      [k |-> "String", s |-> GoBytes(<<>>, 0)],
      [k |-> "String", s |-> GoBytes(<<65>>, 1)],
      [k |-> "Optional", v |-> NilValue] }

KeyValues == {[k |-> "Bool", b |-> TRUE], [k |-> "String", s |-> GoBytes(<<65>>, 1)]}

Arrays ==
    {[k |-> "Array", t |-> [k |-> "VariableSizedArray", elem |-> [k |-> "AnyType"]],
      vs |-> vs] : vs \in SeqsUpTo(ElemValues, MaxElems)}
    \cup {[k |-> "Array",
           t |-> [k |-> "ConstantSizedArray", elem |-> [k |-> "AnyStructType"],
                  size |-> Len(vs)],
           vs |-> vs] : vs \in SeqsUpTo(ElemValues, MaxElems)}
    \cup {[k |-> "Array", t |-> [k |-> "VariableSizedArray", elem |-> t], vs |-> <<>>] :
            t \in Types \ {[k |-> "AnyType"]}}

Dictionaries ==
    {[k |-> "Dictionary",
      t |-> [k |-> "Dictionary", key |-> [k |-> "AnyStructType"], elem |-> [k |-> "AnyType"]],
      ps |-> ps] :
        ps \in SeqsUpTo({[key |-> a, value |-> b] :
                            a \in KeyValues, b \in {[k |-> "Void"], [k |-> "Optional", v |-> NilValue]}},
                        MaxElems)}

\* One composite of each kind with one field, and structs with no field and
\* with two fields.
CompositeFieldValues == {[k |-> "Void"], [k |-> "String", s |-> GoBytes(<<65>>, 1)]}

FieldTypeOf(v) == [k |-> v.k]

CompositeOf(kind, fs) ==
    [k |-> kind,
     t |-> [k |-> kind, id |-> GoBytes(<<65>>, 1),
            raw |-> [k |-> "UInt8"],
            fields |-> [i \in 1..Len(fs) |->
                            [id |-> GoBytes(<<65>>, 1), t |-> FieldTypeOf(fs[i])]]],
     fs |-> fs]

Composites ==
    {CompositeOf(kind, <<[k |-> "Void"]>>) : kind \in CompositeNames}
    \cup {CompositeOf("Struct", fs) : fs \in {<<>>} \cup [1..2 -> CompositeFieldValues]}

Values ==
    Leaves \cup Arrays \cup Dictionaries \cup Composites
    \cup {[k |-> "Optional", v |-> v] : v \in ElemValues \cup {NilValue}}
    \cup {[k |-> "Optional", v |-> [k |-> "Optional", v |-> [k |-> "Bool", b |-> FALSE]]]}
    \cup {[k |-> "Array", t |-> [k |-> "VariableSizedArray", elem |-> [k |-> "AnyType"]],
           vs |-> <<a>>] : a \in {b \in Arrays : Len(b.vs) = 1 /\ b.vs[1].k = "Void"}}

LengthArgs ==
    { GoInt(-2), GoInt(-1), GoInt(0), GoInt(1), GoInt(258),
      <<0, 0, 32767, 65535>>,     \* 2^31 - 1
      <<0, 0, 32768, 0>>,         \* 2^31
      <<0, 0, 65535, 65535>>,     \* 2^32 - 1
      <<0, 1, 0, 0>>,             \* 2^32
      <<0, 1, 0, 1>> }            \* 2^32 + 1

\* The bytes an altered stream may hold in place of one of its own.
AlteredBytes ==
    {0, 1, 2, 100, 123}
    \cup {EncodedType("Arrau"), EncodedType("Composite"), EncodedType("Interface")}

----------------------------------------------------------------------------
(* The front door: cadence_codec/codec.go *)

\* A fault to tell chooseCodec from: the empty input is not looked for.
chooseCodecUnguarded(bytes) ==
    IF Len(bytes) > 0 /\ bytes[1] = 123 THEN [codec |-> "JsonCodec", err |-> Nil]
    ELSE [codec |-> "CadenceBinaryFormatCodec", err |-> Nil]

\* A fault to tell chooseCodec from: the JSON codec is taken on '[' (0x5B).
chooseCodecBracket(bytes) ==
    IF Len(bytes) = 0
    THEN [codec |-> "none", err |-> "cannot decode empty argument"]
    ELSE IF bytes[1] = 91 THEN [codec |-> "JsonCodec", err |-> Nil]
    ELSE [codec |-> "CadenceBinaryFormatCodec", err |-> Nil]

\* CadenceCodec.chooseCodec: '{' is byte 123.
chooseCodec(bytes) ==
    IF Len(bytes) = 0
    THEN [codec |-> "none", err |-> "cannot decode empty argument"]
    ELSE IF bytes[1] = 123 THEN [codec |-> "JsonCodec", err |-> Nil]
    ELSE [codec |-> "CadenceBinaryFormatCodec", err |-> Nil]

----------------------------------------------------------------------------
(* The state machine: one stream, its writers, its transit and its readers *)

NoOut == [op |-> "none"]

\* No item, no return of ReadListItem, no finished iteration yet.
NoItem == [t |-> "none"]

NoReturn == [any |-> FALSE]

NoIteration == [any |-> FALSE]

\* No call of the rlp package was made.
RlpIdle ==
    [status |-> "idle", op |-> "none", inp |-> <<>>, depth |-> 0, stack |-> <<>>,
     item |-> NoItem, next |-> 0, err |-> Nil, ret |-> NoReturn, iter |-> NoIteration]

NoFault == [kind |-> "none"]

\* NewLocatedReader(r), NewLengthyWriter(w) over streams that returned and
\* took nothing yet, and no call made of them.
IoIdle ==
    [l |-> [location |-> 0], w |-> [length |-> 0], returned |-> 0, reported |-> 0,
     op |-> "none", n |-> 0, err |-> Nil, ops |-> 0]

Init ==
    /\ buf = <<>>
    /\ wlen = 0
    /\ werr = Nil
    /\ sent = <<>>
    /\ fault = NoFault
    /\ location = 0
    /\ calls = 0
    /\ out = NoOut
    /\ rlp = RlpIdle
    /\ io = IoIdle

Writable == out = NoOut /\ fault = NoFault /\ Len(sent) < MaxWrites

\* LengthyWriter.Write: the sink takes the bytes, the length grows by them.
Write(bytes, arg, err) ==
    /\ buf' = buf \o bytes
    /\ wlen' = wlen + Len(bytes)
    /\ werr' = err
    /\ sent' = Append(sent, arg)
    /\ UNCHANGED <<fault, location, calls, out, rlp, io>>

\* Encoder.Encode(v)
Encode(v) ==
    /\ Writable
    /\ sent # <<>> => v \in ElemValues
    /\ Write(EncodeValue(v), [op |-> "Encode", arg |-> v], Nil)

\* Encoder.EncodeType(t)
EncodeTypeOp(t) ==
    /\ Writable
    /\ sent = <<>>
    /\ Write(EncodeType(t), [op |-> "EncodeType", arg |-> t], Nil)

\* common_codec.EncodeLength(w, n)
EncodeLengthOp(n) ==
    /\ Writable
    /\ sent = <<>>
    /\ LET Written(l) ==
            Write(l.bytes, [op |-> "EncodeLength", arg |-> [k |-> "length", n |-> n]], l.err)
       IN  Written(EncodeLength(n))

\* The stream reaches the reader cut short.
Truncate(n) ==
    /\ out = NoOut /\ fault = NoFault /\ Len(sent) = 1
    /\ n < Len(buf)
    /\ buf' = SubSeq(buf, 1, n)
    /\ fault' = [kind |-> "cut", at |-> n]
    /\ UNCHANGED <<wlen, werr, sent, location, calls, out, rlp, io>>

\* The stream reaches the reader with byte i replaced by b.
Alter(i, b) ==
    /\ out = NoOut /\ fault = NoFault /\ Len(sent) = 1
    /\ i \in 1..Len(buf)
    /\ buf[i] # b
    /\ buf' = [buf EXCEPT ![i] = b]
    /\ fault' = [kind |-> "alter", at |-> i, byte |-> b]
    /\ UNCHANGED <<wlen, werr, sent, location, calls, out, rlp, io>>

\* value_codec.Decode(gauge, buf)
DecodeOp ==
    /\ out = NoOut
    /\ LET Returned(d) == [op |-> "Decode", codec |-> "value_codec",
                           v |-> d.v, err |-> d.err, pos |-> d.r.pos]
       IN  out' = Returned(Decode(Nil, buf))
    /\ UNCHANGED <<buf, wlen, werr, sent, fault, location, calls, rlp, io>>

\* value_codec.Decode(gauge, buf) with a gauge that has no memory left
DecodeMeteredOp ==
    /\ out = NoOut
    /\ LET Returned(d) == [op |-> "Decode(gauge)", codec |-> "value_codec",
                           v |-> d.v, err |-> d.err, pos |-> d.r.pos]
       IN  out' = Returned(Decode(ExhaustedGauge, buf))
    /\ UNCHANGED <<buf, wlen, werr, sent, fault, location, calls, rlp, io>>

\* decoder.Decode() of a Decoder reading the bytes.Buffer the encoder wrote.
DecoderDecodeOp ==
    /\ out.op \in {"none", "Decoder.Decode"}
    /\ calls < MaxCalls
    /\ LET Returned(d) ==
            /\ out' = [op |-> "Decoder.Decode", codec |-> "value_codec",
                       v |-> d.v, err |-> d.err, pos |-> d.r.pos]
            /\ location' = d.r.pos
       IN  Returned(DecoderDecode(NewLocatedReader("Buffer", buf, location)))
    /\ calls' = calls + 1
    /\ UNCHANGED <<buf, wlen, werr, sent, fault, rlp, io>>

\* decoder.DecodeType() of a Decoder reading the bytes.Buffer.
DecoderDecodeTypeOp ==
    /\ out = NoOut
    /\ LET Returned(d) ==
            /\ out' = [op |-> "Decoder.DecodeType", codec |-> "value_codec",
                       v |-> d.v, err |-> d.err, pos |-> d.r.pos]
            /\ location' = d.r.pos
       IN  Returned(DecodeType(NewLocatedReader("Buffer", buf, location)))
    /\ calls' = calls + 1
    /\ UNCHANGED <<buf, wlen, werr, sent, fault, rlp, io>>

\* common_codec.DecodeLength(&w) on the bytes.Buffer.
DecodeLengthOp ==
    /\ out = NoOut
    /\ LET Returned(d) ==
            /\ out' = [op |-> "DecodeLength", codec |-> "common_codec",
                       v |-> [k |-> "length", n |-> d.v], err |-> d.err, pos |-> d.r.pos]
            /\ location' = d.r.pos
       IN  Returned(DecodeLength(NewLocatedReader("Buffer", buf, location)))
    /\ calls' = calls + 1
    /\ UNCHANGED <<buf, wlen, werr, sent, fault, rlp, io>>

\* CadenceCodec.Decode(gauge, buf): the chosen codec decodes; what the JSON
\* codec makes of the bytes is not decided here.
CadenceCodecDecode ==
    /\ out = NoOut
    /\ LET Returned(c, d) ==
            [op |-> "CadenceCodec.Decode", codec |-> c.codec,
             v |-> d.v, err |-> d.err, pos |-> d.r.pos]
           Chosen(c) ==
            \/ /\ c.err # Nil
               /\ out' = [op |-> "CadenceCodec.Decode", codec |-> c.codec,
                          v |-> NilValue, err |-> c.err, pos |-> 0]
            \/ /\ c.err = Nil /\ c.codec = "JsonCodec"
               /\ \E e \in {Nil, "json"} :
                     out' = [op |-> "CadenceCodec.Decode", codec |-> c.codec,
                             v |-> [k |-> "json"], err |-> e, pos |-> 0]
            \/ /\ c.err = Nil /\ c.codec = "CadenceBinaryFormatCodec"
               /\ out' = Returned(c, Decode(Nil, buf))
       IN  Chosen(chooseCodec(buf))
    /\ UNCHANGED <<buf, wlen, werr, sent, fault, location, calls, rlp, io>>

Next ==
    \/ \E v \in Values : Encode(v)
    \/ \E t \in Types : EncodeTypeOp(t)
    \/ \E n \in LengthArgs : EncodeLengthOp(n)
    \/ \E n \in 0..Len(buf) : Truncate(n)
    \/ \E i \in 1..Len(buf), b \in AlteredBytes : Alter(i, b)
    \/ DecodeOp
    \/ DecodeMeteredOp
    \/ DecoderDecodeOp
    \/ DecoderDecodeTypeOp
    \/ DecodeLengthOp
    \/ CadenceCodecDecode

Spec == Init /\ [][Next]_vars

----------------------------------------------------------------------------
(* The rlp package: Decode, ReadBytesItem, ReadListItem *)

ByteRangeEnd == 127
ShortStringRangeStart == 128
ShortStringRangeEnd == 183
LongStringRangeStart == 184
LongStringRangeEnd == 191
ShortListRangeStart == 192
ShortListRangeEnd == 247
LongListRangeStart == 248

MaxStringSize == 65536
MaxDepthAllowed == 65536

\* len(inp) >= MaxInputByteSize, which is 1 << 32
MaxInputByteSizeReached(inp) == ~InUint32(GoInt(Len(inp)))

\* What a function of the package hands back: its results with a nil error,
\* an error, or a run-time panic of an index or a slice out of range.
RlpErr(e) == [kind |-> "err", err |-> e]

RlpPanic == [kind |-> "panic", err |-> "index out of range"]

BytesItem(b) == [t |-> "Bytes", b |-> b]

ListItem(l) == [t |-> "List", l |-> l]

\* inp[from:to], indices counted from 0 as in the code
Slice(inp, from, to) == SubSeq(inp, from + 1, to)

\* peekNextType(inp, startIndex)
peekNextType(inp, startIndex) ==
    IF startIndex >= Len(inp) THEN [t |-> "Bytes", err |-> "startIndex error"]
    ELSE IF inp[startIndex + 1] < ShortListRangeStart THEN [t |-> "Bytes", err |-> Nil]
    ELSE [t |-> "List", err |-> Nil]

\* The switch on bytesToReadForLen of ReadBytesItem and of ReadListItem: the
\* length that follows a long header, and the index after it.  inp has the
\* capacity of its length, so an index or a slice end past it panics.
ReadLength(inp, startIndex, bytesToReadForLen) ==
    CASE bytesToReadForLen = 0 -> RlpErr("invalid size")
      [] bytesToReadForLen = 1 ->
            IF startIndex >= Len(inp) THEN RlpPanic
            ELSE [kind |-> "ok", v |-> inp[startIndex + 1], next |-> startIndex + 1]
      [] OTHER ->
            IF startIndex + bytesToReadForLen > Len(inp) THEN RlpPanic
            ELSE [kind |-> "ok",
                  v |-> BigEndian(Slice(inp, startIndex, startIndex + bytesToReadForLen)),
                  next |-> startIndex + bytesToReadForLen]

\* A fault to tell ReadBytesItem from: the index returned for an empty short
\* string is the index of its header.
ReadBytesItemStuck(inp, startIndex) ==
    LET Str(from, strLen) ==
            IF Len(inp) < from + strLen THEN RlpErr("not enough bytes to read")
            ELSE [kind |-> "ok", item |-> BytesItem(Slice(inp, from, from + strLen)),
                  next |-> IF strLen = 0 THEN startIndex ELSE from + strLen]
        LongStr(l) ==
            IF l.kind # "ok" THEN l
            ELSE IF l.v >= MaxStringSize THEN RlpErr("max string size has been hit")
            ELSE Str(l.next, l.v)
        Item(firstByte) ==
            IF firstByte > LongStringRangeEnd THEN RlpErr("type mismatch")
            ELSE IF firstByte < ShortStringRangeStart
            THEN [kind |-> "ok", item |-> BytesItem(<<firstByte>>), next |-> startIndex + 1]
            ELSE IF firstByte < LongStringRangeStart
            THEN Str(startIndex + 1, firstByte - ShortStringRangeStart)
            ELSE LongStr(ReadLength(inp, startIndex + 1, firstByte - ShortStringRangeEnd))
    IN  IF startIndex >= Len(inp) THEN RlpErr("startIndex error")
        ELSE Item(inp[startIndex + 1])

\* ReadBytesItem(inp, startIndex)
ReadBytesItem(inp, startIndex) ==
    LET Str(from, strLen) ==
            IF Len(inp) < from + strLen THEN RlpErr("not enough bytes to read")
            ELSE [kind |-> "ok", item |-> BytesItem(Slice(inp, from, from + strLen)),
                  next |-> from + strLen]
        LongStr(l) ==
            IF l.kind # "ok" THEN l
            ELSE IF l.v >= MaxStringSize THEN RlpErr("max string size has been hit")
            ELSE Str(l.next, l.v)
        Item(firstByte) ==
            IF firstByte > LongStringRangeEnd THEN RlpErr("type mismatch")
            ELSE IF firstByte < ShortStringRangeStart
            THEN [kind |-> "ok", item |-> BytesItem(<<firstByte>>), next |-> startIndex + 1]
            ELSE IF firstByte < LongStringRangeStart
            THEN Str(startIndex + 1, firstByte - ShortStringRangeStart)
            ELSE LongStr(ReadLength(inp, startIndex + 1, firstByte - ShortStringRangeEnd))
    IN  IF startIndex >= Len(inp) THEN RlpErr("startIndex error")
        ELSE IF MaxInputByteSizeReached(inp) THEN RlpErr("max input size has reached")
        ELSE Item(inp[startIndex + 1])

\* A fault to tell ReadListHeader from: no check of the depth.
ReadListHeaderAnyDepth(inp, startIndex, depth) ==
    LET LongList(l) ==
            IF l.kind # "ok" THEN l
            ELSE [kind |-> "ok",
                  frame |-> [startIndex |-> l.next, listDataStartIndex |-> l.next,
                             listDataPrevIndex |-> l.next, bytesRead |-> 0,
                             listDataSize |-> l.v, retList |-> <<>>, depth |-> depth]]
        Header(firstByte) ==
            IF firstByte < ShortListRangeStart THEN RlpErr("type mismatch")
            ELSE IF firstByte < LongListRangeStart
            THEN [kind |-> "ok",
                  frame |-> [startIndex |-> startIndex + 1,
                             listDataStartIndex |-> startIndex + 1,
                             listDataPrevIndex |-> startIndex + 1, bytesRead |-> 0,
                             listDataSize |-> firstByte - ShortListRangeStart,
                             retList |-> <<>>, depth |-> depth]]
            ELSE LongList(ReadLength(inp, startIndex + 1, firstByte - ShortListRangeEnd))
    IN  IF Len(inp) = 0 THEN RlpErr("input is empty")
        ELSE IF startIndex >= Len(inp) THEN RlpPanic
        ELSE Header(inp[startIndex + 1])

\* The variables of ReadListItem when its loop starts.
ListFrame(bodyIndex, listDataSize, depth) ==
    [startIndex |-> bodyIndex, listDataStartIndex |-> bodyIndex,
     listDataPrevIndex |-> bodyIndex, bytesRead |-> 0,
     listDataSize |-> listDataSize, retList |-> <<>>, depth |-> depth]

\* ReadListItem(inp, startIndex, depth) up to its loop: an error, a panic,
\* or the frame of the call.
ReadListHeader(inp, startIndex, depth) ==
    LET LongList(l) ==
            IF l.kind # "ok" THEN l
            ELSE [kind |-> "ok", frame |-> ListFrame(l.next, l.v, depth)]
        Header(firstByte) ==
            IF firstByte < ShortListRangeStart THEN RlpErr("type mismatch")
            ELSE IF firstByte < LongListRangeStart
            THEN [kind |-> "ok",
                  frame |-> ListFrame(startIndex + 1, firstByte - ShortListRangeStart, depth)]
            ELSE LongList(ReadLength(inp, startIndex + 1, firstByte - ShortListRangeEnd))
    IN  IF Len(inp) = 0 THEN RlpErr("input is empty")
        ELSE IF MaxInputByteSizeReached(inp) THEN RlpErr("max input size has reached")
        ELSE IF depth >= MaxDepthAllowed THEN RlpErr("max depth has been reached")
        ELSE IF startIndex >= Len(inp) THEN RlpPanic
        ELSE Header(inp[startIndex + 1])

\* A Decode that does not look at the index its item stopped at.
RlpFinishLenient(call, res) ==
    IF res.kind # "ok"
    THEN [call EXCEPT !.status = IF res.kind = "panic" THEN "panic" ELSE "error",
                      !.err = res.err, !.stack = <<>>]
    ELSE [call EXCEPT !.status = "done", !.item = res.item, !.next = res.next,
                      !.stack = <<>>]

\* The call that was made returns: an error or a panic ends it with no item;
\* Decode also refuses an item that stops short of the end of the input.
RlpFinish(call, res) ==
    IF res.kind # "ok"
    THEN [call EXCEPT !.status = IF res.kind = "panic" THEN "panic" ELSE "error",
                      !.err = res.err, !.stack = <<>>]
    ELSE IF call.op = "Decode" /\ Len(call.inp) # res.next
    THEN [call EXCEPT !.status = "error", !.err = "unused data in the stream",
                      !.stack = <<>>]
    ELSE [call EXCEPT !.status = "done", !.item = res.item, !.next = res.next,
                      !.stack = <<>>]

\* A call of ReadListItem starts: it fails at once, or its frame goes on top
\* of the stack.
RlpEnter(call, res) ==
    IF res.kind # "ok" THEN RlpFinish(call, res)
    ELSE [call EXCEPT !.status = "running", !.stack = Append(call.stack, res.frame)]

\* The loop body of the frame f after its item was read: the item is
\* appended and bytesRead grows by the distance the index moved.
ItemRead(f, item, next) ==
    [f EXCEPT !.listDataPrevIndex = f.listDataStartIndex,
              !.listDataStartIndex = next,
              !.retList = Append(f.retList, item),
              !.bytesRead = f.bytesRead + (next - f.listDataStartIndex)]

RlpCall(op, inp, depth) ==
    [RlpIdle EXCEPT !.op = op, !.inp = inp, !.depth = depth]

\* rlp.Decode(inp), up to the loop of the list it reads, if it reads one
Decoding(inp) ==
    LET Peeked(call, nextType) ==
            IF nextType.err # Nil THEN RlpFinish(call, RlpErr(nextType.err))
            ELSE IF nextType.t = "Bytes" THEN RlpFinish(call, ReadBytesItem(inp, 0))
            ELSE RlpEnter(call, ReadListHeader(inp, 0, 0))
        Decoded(call) ==
            IF Len(inp) = 0 THEN RlpFinish(call, RlpErr("data is empty"))
            ELSE IF MaxInputByteSizeReached(inp)
            THEN RlpFinish(call, RlpErr("max input size has reached"))
            ELSE Peeked(call, peekNextType(inp, 0))
    IN  Decoded(RlpCall("Decode", inp, 0))

\* The bytes of the inputs of the rlp package: a single byte, the headers of
\* short strings of 0 to 2 bytes, of long strings with 1 and 2 length bytes,
\* of short lists of 0 to 3 bytes and of a long list with 1 length byte.
RlpBytes == {1, 128, 129, 130, 184, 185, 192, 193, 194, 195, 248}

RlpInputs == UNION {[1..m -> RlpBytes] : m \in 0..MaxInput}

\* The depths ReadListItem is called with.
RlpDepths == {0, MaxDepthAllowed - 1, MaxDepthAllowed}

\* rlp.Decode(inp)
RlpDecode ==
    /\ rlp = RlpIdle
    /\ \E inp \in RlpInputs : rlp' = Decoding(inp)
    /\ UNCHANGED <<buf, wlen, werr, sent, fault, location, calls, out, io>>

\* rlp.ReadListItem(inp, 0, depth)
RlpReadListItem ==
    /\ rlp = RlpIdle
    /\ \E inp \in RlpInputs, depth \in RlpDepths :
          rlp' = RlpEnter(RlpCall("ReadListItem", inp, depth),
                          ReadListHeader(inp, 0, depth))
    /\ UNCHANGED <<buf, wlen, werr, sent, fault, location, calls, out, io>>

\* One pass of the loop of the running ReadListItem: the kind of the next
\* item is peeked and the item is read, a list item by a nested call.
RlpIterate ==
    /\ rlp.status = "running"
    /\ LET Top(f, below) ==
            LET ItemOf(res) ==
                    IF res.kind # "ok" THEN RlpFinish(rlp, res)
                    ELSE [rlp EXCEPT
                            !.stack = Append(below, ItemRead(f, res.item, res.next)),
                            !.iter = [any |-> TRUE,
                                      advance |-> res.next - f.listDataStartIndex,
                                      bytesRead |-> f.bytesRead + (res.next - f.listDataStartIndex),
                                      was |-> f.bytesRead]]
                Nested(call) == RlpEnter(call, ReadListHeader(rlp.inp, f.listDataStartIndex, f.depth + 1))
                Peeked(itemType) ==
                    IF itemType.err # Nil THEN RlpFinish(rlp, RlpErr(itemType.err))
                    ELSE IF itemType.t = "Bytes"
                    THEN ItemOf(ReadBytesItem(rlp.inp, f.listDataStartIndex))
                    ELSE Nested(rlp)
            IN  /\ f.bytesRead < f.listDataSize
                /\ rlp' = Peeked(peekNextType(rlp.inp, f.startIndex))
       IN  Top(rlp.stack[Len(rlp.stack)], SubSeq(rlp.stack, 1, Len(rlp.stack) - 1))
    /\ UNCHANGED <<buf, wlen, werr, sent, fault, location, calls, out, io>>

\* The loop of the running ReadListItem ends and the call returns its list
\* and its index, to the loop of the call around it or to the first caller.
RlpReturn ==
    /\ rlp.status = "running"
    /\ LET Top(f, below) ==
            LET Returned(call) ==
                    IF below = <<>>
                    THEN RlpFinish(call, [kind |-> "ok", item |-> ListItem(f.retList),
                                          next |-> f.listDataStartIndex])
                    ELSE LET Outer(g, rest) ==
                                [call EXCEPT
                                   !.stack = Append(rest, ItemRead(g, ListItem(f.retList),
                                                                   f.listDataStartIndex)),
                                   !.iter = [any |-> TRUE,
                                             advance |-> f.listDataStartIndex - g.listDataStartIndex,
                                             bytesRead |-> g.bytesRead
                                                + (f.listDataStartIndex - g.listDataStartIndex),
                                             was |-> g.bytesRead]]
                         IN  Outer(below[Len(below)], SubSeq(below, 1, Len(below) - 1))
            IN  /\ ~(f.bytesRead < f.listDataSize)
                /\ rlp' = Returned([rlp EXCEPT
                            !.ret = [any |-> TRUE, body |-> f.startIndex,
                                     size |-> f.listDataSize, next |-> f.listDataStartIndex,
                                     depth |-> f.depth, item |-> ListItem(f.retList)]])
       IN  Top(rlp.stack[Len(rlp.stack)], SubSeq(rlp.stack, 1, Len(rlp.stack) - 1))
    /\ UNCHANGED <<buf, wlen, werr, sent, fault, location, calls, out, io>>

RlpNext ==
    \/ RlpDecode
    \/ RlpReadListItem
    \/ RlpIterate
    \/ RlpReturn

RlpSpec == Init /\ [][RlpNext]_vars

\* The loop of a call is not held up for ever.
RlpFairSpec == RlpSpec /\ WF_vars(RlpIterate) /\ WF_vars(RlpReturn)

----------------------------------------------------------------------------
(* LocatedReader and LengthyWriter over any io.Reader and io.Writer *)

\* What the underlying Read or Write may come back with beside the count.
IoErrors == {Nil, "EOF", "failure"}

\* A fault to tell LocatedReader.Read from: the count is added on success only.
LocatedReaderReadOnSuccess(l, n, err) ==
    [l |-> [l EXCEPT !.location = IF err = Nil THEN @ + n ELSE @], n |-> n, err |-> err]

\* (l *LocatedReader) Read(p), the underlying l.r.Read(p) returning (n, err)
LocatedReaderRead(l, n, err) ==
    [l |-> [l EXCEPT !.location = @ + n], n |-> n, err |-> err]

\* (l *LengthyWriter) Write(p), the underlying l.w.Write(p) returning (n, err)
LengthyWriterWrite(l, n, err) ==
    [l |-> [l EXCEPT !.length = @ + n], n |-> n, err |-> err]

\* l.Read(p) with len(p) up to MaxChunk: an io.Reader returns 0 <= n <= len(p)
\* and any error, with or without bytes.
IoRead ==
    /\ io.ops < MaxOps
    /\ \E p \in 0..MaxChunk : \E n \in 0..p, err \in IoErrors :
          LET Returned(res) ==
                  [io EXCEPT !.l = res.l, !.returned = @ + n, !.op = "Read",
                             !.n = res.n, !.err = res.err, !.ops = @ + 1]
          IN  io' = Returned(LocatedReaderRead(io.l, n, err))
    /\ UNCHANGED <<buf, wlen, werr, sent, fault, location, calls, out, rlp>>

\* l.Write(p) with len(p) up to MaxChunk: an io.Writer reports 0 <= n <= len(p)
\* and an error whenever n < len(p).
IoWrite ==
    /\ io.ops < MaxOps
    /\ \E p \in 0..MaxChunk : \E n \in 0..p, err \in IoErrors \ {"EOF"} :
          /\ n < p => err # Nil
          /\ LET Returned(res) ==
                  [io EXCEPT !.w = res.l, !.reported = @ + n, !.op = "Write",
                             !.n = res.n, !.err = res.err, !.ops = @ + 1]
             IN  io' = Returned(LengthyWriterWrite(io.w, n, err))
    /\ UNCHANGED <<buf, wlen, werr, sent, fault, location, calls, out, rlp>>

IoNext ==
    \/ IoRead
    \/ IoWrite

IoSpec == Init /\ [][IoNext]_vars

----------------------------------------------------------------------------
(* Properties *)

\* The stream holds exactly what one write operation `op` produced.
Clean(op) == fault = NoFault /\ Len(sent) = 1 /\ sent[1].op = op

\* A decode of a value from the start of the stream has returned.
ValueDecoded ==
    \/ out.op = "Decode"
    \/ out.op = "Decoder.Decode" /\ calls = 1

\* The types DecodeType has a case for, at every level.
RECURSIVE DecodableType(_)
DecodableType(t) ==
    CASE t.k \in {"Optional", "VariableSizedArray", "ConstantSizedArray"} ->
            t.elem = NilType \/ DecodableType(t.elem)
      [] t.k = "Dictionary" -> DecodableType(t.key) /\ DecodableType(t.elem)
      [] OTHER -> t.k \in SimpleTypeNames

\* The values of the variants DecodeValue has a case for, whose types
\* DecodeType has a case for.
RECURSIVE DecodableValue(_)
DecodableValue(v) ==
    CASE v.k = "Optional" -> v.v = NilValue \/ DecodableValue(v.v)
      [] v.k = "Array" ->
            DecodableType(v.t) /\ \A i \in 1..Len(v.vs) : DecodableValue(v.vs[i])
      [] v.k = "Dictionary" ->
            /\ DecodableType(v.t)
            /\ \A i \in 1..Len(v.ps) :
                  DecodableValue(v.ps[i].key) /\ DecodableValue(v.ps[i].value)
      [] OTHER -> v.k \in {"Void", "Bool", "Address"} \cup TextNames \cup BigNames \cup FixedNames

\* C1: encoding a value of a supported variant and decoding the produced
\* bytes succeeds and yields the value, with the declared types of arrays
\* and dictionaries.
C1_ValueRoundTrip ==
    (ValueDecoded /\ Clean("Encode") /\ DecodableValue(sent[1].arg))
        => (out.err = Nil /\ out.v = sent[1].arg)

\* The types of the wire grammar: at every level a scalar type, an Any type,
\* Optional, an array type or Dictionary.  MetaType has a tag and no clause
\* of the grammar.
RECURSIVE GrammarType(_)
GrammarType(t) ==
    CASE t.k \in {"Optional", "VariableSizedArray", "ConstantSizedArray"} ->
            t.elem = NilType \/ GrammarType(t.elem)
      [] t.k = "Dictionary" -> GrammarType(t.key) /\ GrammarType(t.elem)
      [] OTHER -> t.k \in (SimpleTypeNames \cup OtherScalarNames) \ {"MetaType"}

\* C2: encoding a type made of the scalar types, Optional, the array types,
\* Dictionary and the Any types with EncodeType and decoding the produced
\* bytes with DecodeType succeeds and yields the type.
C2_TypeRoundTrip ==
    (out.op = "Decoder.DecodeType" /\ Clean("EncodeType") /\ GrammarType(sent[1].arg))
        => (out.err = Nil /\ out.v = sent[1].arg /\ out.pos = Len(buf))

\* C11: a composite value that was encoded decodes, without error, to the
\* value, with its type and one value per field the type declares.
C11_CompositeRoundTrip ==
    (ValueDecoded /\ Clean("Encode") /\ sent[1].arg.k \in CompositeNames) =>
        /\ out.err = Nil
        /\ out.v = sent[1].arg
        /\ Len(out.v.fs) = Len(out.v.t.fields)

\* C3: where a bool is read (the payload of a Bool, the is-nil flag of an
\* Optional value, the is-nil flag of an optional type), byte 1 is false,
\* byte 2 is true, and any other byte, 0 included, is an error.
C3_BoolDomain ==
    /\ (ValueDecoded /\ Len(buf) >= 2 /\ buf[1] = EncodedValue("Bool")) =>
          /\ buf[2] = 1 => (out.err = Nil /\ out.v = [k |-> "Bool", b |-> FALSE])
          /\ buf[2] = 2 => (out.err = Nil /\ out.v = [k |-> "Bool", b |-> TRUE])
          /\ buf[2] \notin {1, 2} => out.err # Nil
    /\ (ValueDecoded /\ Len(buf) >= 2 /\ buf[1] = EncodedValue("Optional")) =>
          /\ buf[2] = 1 => (out.pos > 2 \/ out.err # Nil)
          /\ (buf[2] = 1 /\ out.err = Nil) => (out.v.k = "Optional" /\ out.v.v # NilValue)
          /\ buf[2] = 2 =>
                (out.err = Nil /\ out.pos = 2 /\ out.v = [k |-> "Optional", v |-> NilValue])
          /\ buf[2] \notin {1, 2} => out.err # Nil
    /\ (out.op = "Decoder.DecodeType" /\ Len(buf) >= 2 /\ buf[1] = EncodedType("Optional")) =>
          /\ buf[2] = 1 => (out.pos > 2 \/ out.err # Nil)
          /\ (buf[2] = 1 /\ out.err = Nil) => (out.v.k = "Optional" /\ out.v.elem # NilType)
          /\ buf[2] = 2 =>
                (out.err = Nil /\ out.pos = 2 /\ out.v = [k |-> "Optional", elem |-> NilType])
          /\ buf[2] \notin {1, 2} => out.err # Nil

C3_Witness ==
    /\ out.op = "Decode" /\ Len(buf) = 3
    /\ buf[1] = EncodedValue("Optional") /\ buf[2] = 0
    /\ out.err = "invalid boolean value"

\* The positions of the value tags in the encoding of v, when the encoding
\* starts after `base` bytes of the stream.
RECURSIVE ValueTagPositions(_, _)
RECURSIVE ValueTagPositionsOf(_, _)
ValueTagPositions(v, base) ==
    {base + 1} \cup
    CASE v.k = "Optional" /\ v.v # NilValue -> ValueTagPositions(v.v, base + 2)
      [] v.k = "Array" ->
            ValueTagPositionsOf(v.vs, base + 1 + Len(EncodeType(v.t.elem)) + 4)
      [] v.k = "Dictionary" ->
            ValueTagPositionsOf(
                [i \in 1..(2 * Len(v.ps)) |->
                    IF i % 2 = 1 THEN v.ps[(i + 1) \div 2].key ELSE v.ps[i \div 2].value],
                base + 1 + Len(EncodeType(v.t.key)) + Len(EncodeType(v.t.elem)) + 4)
      [] OTHER -> {}

ValueTagPositionsOf(vs, base) ==
    IF vs = <<>> THEN {}
    ELSE ValueTagPositions(Head(vs), base)
            \cup ValueTagPositionsOf(Tail(vs), base + Len(EncodeValue(Head(vs))))

\* C4: a value whose tag byte is 0 or not an assigned value tag does not
\* decode: the DecodeValue that reads the byte returns an error and no value,
\* wherever in the stream it starts, and so does Decode when the byte is the
\* tag of the value or of one nested in it.
C4_UnknownValueTag ==
    /\ \A p \in 1..Len(buf), kind \in {"Reader", "Buffer"} :
          buf[p] \notin AssignedValueTags =>
              LET Refused(d) == d.err # Nil /\ d.v = NilValue
              IN  Refused(DecodeValue(NewLocatedReader(kind, buf, p - 1)))
    /\ (/\ ValueDecoded /\ Len(sent) = 1 /\ sent[1].op = "Encode"
        /\ fault.kind = "alter" /\ fault.byte \notin AssignedValueTags
        /\ fault.at \in ValueTagPositions(sent[1].arg, 0))
          => (out.err # Nil /\ (out.op = "Decode" => out.v = NilValue))

C4_Witness ==
    /\ out.op = "Decode" /\ Len(sent) = 1 /\ sent[1].op = "Encode"
    /\ sent[1].arg.k = "Array" /\ Len(sent[1].arg.vs) = 2
    /\ fault.kind = "alter" /\ fault.byte = 100 /\ fault.at = Len(buf)
    /\ fault.at \in ValueTagPositions(sent[1].arg, 0)
    /\ out.err = "unknown cadence.Value" /\ out.v = NilValue

\* C5: where a length is read with fewer than 4 bytes left (the length of a
\* byte string, the element count of an array), the decode returns an error.
C5_TruncatedLength ==
    ValueDecoded =>
        /\ (Len(buf) \in 1..4 /\ buf[1] \in {EncodedValue(n) : n \in TextNames})
              => out.err # Nil
        /\ (/\ Len(buf) \in 2..5
            /\ buf[1] \in {EncodedValue("VariableArray"), EncodedValue("ConstantArray")}
            /\ TypeNameOf(buf[2]) \in SimpleTypeNames)
              => out.err # Nil

\* C6: a byte string whose length header declares more bytes than remain
\* does not decode; one that decodes holds the declared number of bytes, all
\* of them read from the input.
C6_ByteStringLength ==
    (ValueDecoded /\ Len(buf) >= 5 /\ buf[1] \in {EncodedValue(n) : n \in TextNames}) =>
        LET declared == BigEndian(SubSeq(buf, 2, 5))
        IN  /\ declared > Len(buf) - 5 => out.err # Nil
            /\ out.err = Nil =>
                  /\ out.pos = 5 + declared
                  /\ out.v.s = GoBytes(SubSeq(buf, 6, 5 + declared), declared)

\* C7: decoding an empty byte sequence returns an error and no value, and
\* CadenceCodec.Decode returns it without choosing a codec.
C7_EmptyInput ==
    (buf = <<>> /\ out.op \in {"Decode", "CadenceCodec.Decode"}) =>
        /\ out.err # Nil
        /\ out.v = NilValue
        /\ out.op = "CadenceCodec.Decode" =>
              (out.codec = "none" /\ out.err = "cannot decode empty argument")

C7_Witness ==
    /\ buf = <<>> /\ out.op = "CadenceCodec.Decode"
    /\ out.codec = "none" /\ out.err # Nil

\* C8: CadenceCodec.Decode takes the JSON codec exactly when the first byte
\* is '{' and the binary codec otherwise; no assigned value tag is '{', so
\* what the encoder wrote for a value goes to the binary codec.
C8_CodecChoice ==
    /\ 123 \notin AssignedValueTags
    /\ (out.op = "CadenceCodec.Decode" /\ buf # <<>>) =>
          /\ out.codec = "JsonCodec" <=> buf[1] = 123
          /\ out.codec = "CadenceBinaryFormatCodec" <=> buf[1] # 123
          /\ (Clean("Encode") \/ (Len(sent) > 1 /\ sent[1].op = "Encode"))
                => out.codec = "CadenceBinaryFormatCodec"

C8_Witness ==
    /\ out.op = "CadenceCodec.Decode" /\ out.codec = "JsonCodec"
    /\ buf[1] = 123 /\ Len(sent) = 1 /\ sent[1].op = "Encode"

\* C9: EncodeLength of a negative length returns an error and writes
\* nothing.
C9_NegativeLength ==
    (Len(sent) = 1 /\ sent[1].op = "EncodeLength" /\ IsNegative(sent[1].arg.n)) =>
        (werr # Nil /\ buf = <<>> /\ wlen = 0)

C9_Witness ==
    /\ Len(sent) = 1 /\ sent[1].op = "EncodeLength" /\ sent[1].arg.n = GoInt(-1)
    /\ werr = "cannot encode length below zero"

\* Every constant-sized array in v has as many elements as its type says.
RECURSIVE ConstantArraysFull(_)
ConstantArraysFull(v) ==
    CASE v.k = "Optional" -> v.v = NilValue \/ ConstantArraysFull(v.v)
      [] v.k = "Array" ->
            /\ v.t.k = "ConstantSizedArray" => Len(v.vs) = v.t.size
            /\ \A i \in 1..Len(v.vs) : ConstantArraysFull(v.vs[i])
      [] v.k = "Dictionary" ->
            \A i \in 1..Len(v.ps) :
                ConstantArraysFull(v.ps[i].key) /\ ConstantArraysFull(v.ps[i].value)
      [] OTHER -> TRUE

\* The stream is the encoding of a constant-sized array cut after the
\* encodings of m of its elements, m less than its size.
CutAfterElements(m) ==
    /\ Len(sent) = 1 /\ sent[1].op = "Encode"
    /\ sent[1].arg.k = "Array" /\ sent[1].arg.t.k = "ConstantSizedArray"
    /\ m < Len(sent[1].arg.vs)
    /\ fault.kind = "cut"
    /\ fault.at = 1 + Len(EncodeType(sent[1].arg.t.elem)) + 4
                    + Len(EncodeValues(SubSeq(sent[1].arg.vs, 1, m)))

PairCountAt(d) == 1 + Len(EncodeType(d.t.key)) + Len(EncodeType(d.t.elem)) + 4

\* C12: a dictionary decodes to the key type and the value type that were
\* read, and to exactly as many pairs as the pair count says, in the order
\* of the wire: with the count as written, all the pairs that were encoded;
\* with a smaller count in its place, the first `count` of them.
C12_DictionaryLayout ==
    (/\ ValueDecoded /\ Len(sent) = 1 /\ sent[1].op = "Encode"
     /\ sent[1].arg.k = "Dictionary"
     /\ \/ fault = NoFault
        \/ fault.kind = "alter" /\ fault.at = PairCountAt(sent[1].arg))
        => /\ fault = NoFault => out.err = Nil
           /\ buf[PairCountAt(sent[1].arg)] > Len(sent[1].arg.ps) => out.err # Nil
           /\ out.err = Nil =>
                /\ out.v.k = "Dictionary"
                /\ out.v.t = sent[1].arg.t
                /\ Len(out.v.ps) = buf[PairCountAt(sent[1].arg)]
                /\ out.v.ps = SubSeq(sent[1].arg.ps, 1, Len(out.v.ps))

C12_Witness ==
    /\ out.op = "Decode" /\ Clean("Encode")
    /\ sent[1].arg.k = "Dictionary" /\ Len(sent[1].arg.ps) = 2
    /\ sent[1].arg.ps[1] # sent[1].arg.ps[2]
    /\ out.err = Nil /\ out.v = sent[1].arg

\* C13: a big integer is written as its tag, a sign bool that is true exactly
\* when it is negative, and the length-prefixed big-endian magnitude; zero
\* has sign false and no magnitude byte; decoding the bytes gives the value.
C13_BigIntLayout ==
    (ValueDecoded /\ Clean("Encode") /\ sent[1].arg.k \in BigNames) =>
        LET i == sent[1].arg.i
        IN  /\ buf = <<EncodedValue(sent[1].arg.k)>>
                        \o << IF i.neg THEN EncodedBoolTrue ELSE EncodedBoolFalse >>
                        \o PutBigEndian(Len(i.mag) + i.shift, 4)
                        \o i.mag \o Zeros(i.shift)
            /\ i.mag = <<>> => (~i.neg /\ Len(buf) = 6)
            /\ out.err = Nil
            /\ out.v = sent[1].arg

\* C14: a String, Bytes or Character with no payload is written as its tag
\* and the length bytes 0,0,0,0, and decodes to the empty value without
\* error, also when Decode is given exactly these bytes.
C14_EmptyPayload ==
    (/\ ValueDecoded /\ Clean("Encode")
     /\ sent[1].arg.k \in TextNames /\ sent[1].arg.s.len = 0)
        => /\ buf = <<EncodedValue(sent[1].arg.k), 0, 0, 0, 0>>
           /\ out.err = Nil
           /\ out.v = sent[1].arg

\* common_codec.DecodeLength has returned from the bytes one EncodeLength
\* wrote to an empty buffer.
LengthDecoded == Clean("EncodeLength") /\ out.op = "DecodeLength"

\* C15: for every n with 0 <= n < 2^32, EncodeLength writes exactly 4 bytes
\* that hold n most significant byte first, and DecodeLength applied to
\* those 4 bytes returns n without an error.
C15_LengthRoundTrip ==
    (Clean("EncodeLength") /\ InUint32(sent[1].arg.n)) =>
        /\ werr = Nil
        /\ Len(buf) = 4
        /\ \A i \in 1..4 : buf[i] \in 0..255
        /\ <<0, 0, buf[1] * 256 + buf[2], buf[3] * 256 + buf[4]>> = sent[1].arg.n
        /\ out.op = "DecodeLength" =>
              /\ out.err = Nil
              /\ out.v.n = sent[1].arg.n
              /\ out.pos = 4

C15_Witness ==
    /\ LengthDecoded
    /\ sent[1].arg.n = <<0, 0, 65535, 65535>>
    /\ buf = <<255, 255, 255, 255>>
    /\ out.err = Nil
    /\ out.v.n = sent[1].arg.n

\* C16: an Address decoded with fewer than 8 bytes left after its tag
\* returns an error; an Address decode that succeeds has consumed exactly
\* the 8 bytes after the tag and returns the address made of them.
C16_AddressLength ==
    (ValueDecoded /\ buf # <<>> /\ buf[1] = EncodedValue("Address")) =>
        /\ Len(buf) - 1 < AddressLength => out.err # Nil
        /\ out.err = Nil =>
              /\ out.pos = 1 + AddressLength
              /\ out.v = [k |-> "Address", a |-> SubSeq(buf, 2, 1 + AddressLength)]

\* A decode of a type from the start of the stream has returned.
TypeDecoded == out.op = "Decoder.DecodeType" /\ calls = 1

\* The tag bytes that stand for no type: 0, the unassigned ones, MetaType
\* and the reserved slots.
UnacceptedTypeTags ==
    ((0..255) \ AssignedTypeTags)
    \cup {EncodedType("MetaType"), EncodedType("Arrau"),
          EncodedType("Composite"), EncodedType("Interface")}

\* No name of an unaccepted tag occurs in a decoded type.
RECURSIVE AcceptedType(_)
AcceptedType(t) ==
    CASE t = NilType -> TRUE
      [] t.k \in {"Optional", "VariableSizedArray", "ConstantSizedArray"} ->
            AcceptedType(t.elem)
      [] t.k = "Dictionary" -> AcceptedType(t.key) /\ AcceptedType(t.elem)
      [] OTHER -> EncodedType(t.k) \notin UnacceptedTypeTags

\* C17: decoding a type whose tag byte is 0, unassigned, MetaType or a
\* reserved slot (Arrau, Composite, Interface) returns an error, at the top
\* and as the element type of an array type or of an optional type; no
\* decoded type holds one of them; decoding a type from no bytes is an error.
C17_UnacceptedTypeTag ==
    TypeDecoded =>
        /\ buf = <<>> => out.err # Nil
        /\ (buf # <<>> /\ buf[1] \in UnacceptedTypeTags) =>
              (out.err # Nil /\ out.v = NilType)
        /\ (/\ Len(buf) >= 2
            /\ buf[1] = EncodedType("VariableSizedArray")
            /\ buf[2] \in UnacceptedTypeTags) => out.err # Nil
        /\ (/\ Len(buf) >= 3
            /\ buf[1] = EncodedType("Optional")
            /\ buf[2] = EncodedBoolFalse
            /\ buf[3] \in UnacceptedTypeTags) => out.err # Nil
        /\ out.err = Nil => AcceptedType(out.v)

C17_Witness ==
    /\ TypeDecoded
    /\ Len(buf) = 2
    /\ buf[1] = EncodedType("VariableSizedArray")
    /\ buf[2] = EncodedType("Composite")
    /\ out.err # Nil

\* value_codec.Decode has returned from a stream that holds the encoding of
\* one value followed by the bytes of a second write.
TrailingDecoded ==
    /\ out.op = "Decode"
    /\ fault = NoFault
    /\ Len(sent) = 2
    /\ sent[1].op = "Encode"
    /\ Len(buf) > Len(EncodeValue(sent[1].arg))

\* C18: when the input is the encoding of one value followed by extra
\* bytes, Decode succeeds, returns that value, and stops at the end of the
\* value's encoding: the extra bytes are left unread and are not rejected.
C18_TrailingBytes ==
    TrailingDecoded =>
        /\ out.err = Nil
        /\ out.v = sent[1].arg
        /\ out.pos = Len(EncodeValue(sent[1].arg))

\* C19: the count of bytes a reader has consumed of an input of N bytes is
\* between 0 and N, after every decode call; a Decode of a value that
\* returns on a non-empty input has consumed at least 1 byte.
C19_ConsumedBounds ==
    /\ location \in 0..Len(buf)
    /\ out.op # "none" => out.pos \in 0..Len(buf)
    /\ (ValueDecoded /\ buf # <<>>) => out.pos >= 1

C19_Witness ==
    /\ out.op = "Decode"
    /\ out.err # Nil
    /\ Len(buf) >= 5
    /\ out.pos = Len(buf)

\* C20: EncodeLength rejects a length of 2^32 or more with an error and
\* writes nothing for it; the 4 bytes it writes never stand for a number
\* other than the length it was given.
C20_LengthRange ==
    Clean("EncodeLength") =>
        /\ (~IsNegative(sent[1].arg.n) /\ ~InUint32(sent[1].arg.n)) =>
              (werr # Nil /\ buf = <<>>)
        /\ buf # <<>> =>
              <<0, 0, buf[1] * 256 + buf[2], buf[3] * 256 + buf[4]>> = sent[1].arg.n

\* rlp.Decode has returned or was ended by a panic.
RlpDecoded == rlp.op = "Decode" /\ rlp.status \in {"done", "error", "panic"}

\* C21: rlp.Decode returns an item only when the item it read stops exactly
\* at the end of the input; when a byte is left after the top-level item (a
\* single byte, a short string, an empty list) it returns an error, and an
\* error comes with no item.
C21_UnusedData ==
    RlpDecoded =>
        /\ rlp.status = "done" => (rlp.item # NoItem /\ rlp.next = Len(rlp.inp))
        /\ rlp.status # "done" => rlp.item = NoItem
        /\ (Len(rlp.inp) > 1 /\ rlp.inp[1] <= ByteRangeEnd) => rlp.status = "error"
        /\ (/\ rlp.inp # <<>>
            /\ rlp.inp[1] \in ShortStringRangeStart..ShortStringRangeEnd
            /\ Len(rlp.inp) > 1 + (rlp.inp[1] - ShortStringRangeStart))
              => rlp.status = "error"
        /\ (Len(rlp.inp) > 1 /\ rlp.inp[1] = ShortListRangeStart) => rlp.status = "error"
        /\ (/\ rlp.inp # <<>>
            /\ rlp.inp[1] \in ShortStringRangeStart..ShortStringRangeEnd
            /\ Len(rlp.inp) = 1 + (rlp.inp[1] - ShortStringRangeStart))
              => (/\ rlp.status = "done"
                  /\ rlp.item = BytesItem(SubSeq(rlp.inp, 2, Len(rlp.inp))))

C21_Witness ==
    /\ RlpDecoded
    /\ Len(rlp.inp) = 3
    /\ rlp.inp[1] = ShortListRangeStart + 1
    /\ rlp.inp[2] = 1
    /\ rlp.status = "error"
    /\ rlp.err = "unused data in the stream"

\* The decode of the value that starts after the first n bytes of the
\* stream fails.
ChildFailsAt(n) == DecodeValue(NewLocatedReader("Reader", buf, n)).err # Nil

\* The stream is an optional with a payload.
OptionalWithPayload ==
    /\ Len(buf) >= 2
    /\ buf[1] = EncodedValue("Optional")
    /\ buf[2] = EncodedBoolFalse

\* The stream is an array of a payload-free element type with a count of 1
\* or more, variable-sized or constant-sized.
ArrayWithElements ==
    \/ /\ Len(buf) >= 6
       /\ buf[1] = EncodedValue("VariableArray")
       /\ TypeNameOf(buf[2]) \in SimpleTypeNames
       /\ \E i \in 3..6 : buf[i] # 0
    \/ /\ Len(buf) >= 6
       /\ buf[1] = EncodedValue("ConstantArray")
       /\ TypeNameOf(buf[2]) \in SimpleTypeNames
       /\ \E i \in 3..6 : buf[i] # 0

\* The stream is a dictionary of payload-free key and value types with a
\* count of 1 or more.
DictionaryWithPairs ==
    /\ Len(buf) >= 7
    /\ buf[1] = EncodedValue("Dictionary")
    /\ TypeNameOf(buf[2]) \in SimpleTypeNames
    /\ TypeNameOf(buf[3]) \in SimpleTypeNames
    /\ \E i \in 4..7 : buf[i] # 0

\* The key of the first pair decodes and the value after it does not.
FirstValueFails ==
    LET Value(key) == key.err = Nil /\ DecodeValue(key.r).err # Nil
    IN  Value(DecodeValue(NewLocatedReader("Reader", buf, 7)))

\* The stream is an array or a dictionary whose embedded type does not
\* decode.
EmbeddedTypeFails ==
    /\ buf # <<>>
    /\ buf[1] \in {EncodedValue("VariableArray"), EncodedValue("ConstantArray"),
                   EncodedValue("Dictionary")}
    /\ LET Failed(t) == t.err # Nil
       IN  Failed(DecodeType(NewLocatedReader("Reader", buf, 1)))

\* C22: when the decode of a nested child fails (the payload of an
\* optional, an element of an array, a key or a value of a dictionary, an
\* embedded type), Decode returns an error; and whenever Decode returns an
\* error it returns no value, not the part that was built.
C22_ChildFailure ==
    out.op = "Decode" =>
        /\ out.err # Nil => out.v = NilValue
        /\ (OptionalWithPayload /\ ChildFailsAt(2)) => out.err # Nil
        /\ (ArrayWithElements /\ ChildFailsAt(6)) => out.err # Nil
        /\ (DictionaryWithPairs /\ ChildFailsAt(7)) => out.err # Nil
        /\ (DictionaryWithPairs /\ FirstValueFails) => out.err # Nil
        /\ EmbeddedTypeFails => out.err # Nil

C22_Witness ==
    /\ out.op = "Decode"
    /\ OptionalWithPayload
    /\ Len(buf) >= 3
    /\ ChildFailsAt(2)
    /\ out.err # Nil
    /\ out.v = NilValue

\* C23: every value and type a decode constructs is constructed through
\* the memory gauge of the decoder, and a rejection by the gauge makes the
\* decode return an error: a decode with a gauge that has no memory left
\* never returns a value.
C23_GaugedConstruction ==
    out.op = "Decode(gauge)" => (out.err # Nil /\ out.v = NilValue)

\* C24: whenever ReadListItem succeeds, the index it returns is the index
\* of the first byte of the list body plus the body length the header
\* declared.
C24_ListBodyLength ==
    rlp.ret.any => rlp.ret.next = rlp.ret.body + rlp.ret.size

\* The number of list levels of an item: 0 for a byte string, 1 for a list
\* of byte strings.
RECURSIVE Nesting(_)
Nesting(item) ==
    IF item.t # "List" THEN 0
    ELSE 1 + (IF item.l = <<>> THEN 0
              ELSE LET deepest == CHOOSE i \in 1..Len(item.l) :
                                     \A j \in 1..Len(item.l) :
                                        Nesting(item.l[j]) <= Nesting(item.l[i])
                   IN  Nesting(item.l[deepest]))

\* C25: ReadListItem called with a depth of MaxDepthAllowed or more returns
\* an error; every nested list is read at the depth of the list around it
\* plus one and below MaxDepthAllowed; so a list that is returned, read from
\* depth d, has its innermost level at a depth below MaxDepthAllowed.
C25_DepthBound ==
    /\ (rlp.op = "ReadListItem" /\ rlp.depth >= MaxDepthAllowed) =>
          (rlp.status = "error" /\ rlp.item = NoItem)
    /\ \A i \in 1..Len(rlp.stack) :
          /\ rlp.stack[i].depth < MaxDepthAllowed
          /\ rlp.stack[i].depth = rlp.depth + (i - 1)
    /\ rlp.ret.any =>
          (rlp.ret.depth < MaxDepthAllowed
           /\ rlp.ret.depth + Nesting(rlp.ret.item) <= MaxDepthAllowed)
    /\ rlp.status = "done" =>
          rlp.depth + Nesting(rlp.item) <= MaxDepthAllowed

C25_Witness ==
    /\ rlp.op = "ReadListItem"
    /\ rlp.depth = MaxDepthAllowed - 1
    /\ Len(rlp.inp) = 2
    /\ rlp.inp[1] = ShortListRangeStart + 1
    /\ rlp.inp[2] = ShortListRangeStart
    /\ rlp.status = "error"
    /\ rlp.err = "max depth has been reached"

\* The items that a list body of single bytes, short strings and short
\* lists stands for, each item read by the kind its own first byte gives;
\* ok is FALSE for a body that is not made of such items.
RECURSIVE BodyItems(_)
BodyItems(b) ==
    LET Rest(item, rest) ==
            [ok |-> rest.ok, items |-> <<item>> \o rest.items]
        Inner(inner, n) ==
            IF ~inner.ok THEN [ok |-> FALSE, items |-> <<>>]
            ELSE Rest(ListItem(inner.items), BodyItems(SubSeq(b, n + 2, Len(b))))
        First(firstByte) ==
            CASE firstByte <= ByteRangeEnd ->
                    Rest(BytesItem(<<firstByte>>), BodyItems(SubSeq(b, 2, Len(b))))
              [] /\ firstByte \in ShortStringRangeStart..ShortStringRangeEnd
                 /\ Len(b) >= 1 + (firstByte - ShortStringRangeStart) ->
                    Rest(BytesItem(SubSeq(b, 2, 1 + (firstByte - ShortStringRangeStart))),
                         BodyItems(SubSeq(b, 2 + (firstByte - ShortStringRangeStart), Len(b))))
              [] /\ firstByte \in ShortListRangeStart..ShortListRangeEnd
                 /\ Len(b) >= 1 + (firstByte - ShortListRangeStart) ->
                    Inner(BodyItems(SubSeq(b, 2, 1 + (firstByte - ShortListRangeStart))),
                          firstByte - ShortListRangeStart)
              [] OTHER -> [ok |-> FALSE, items |-> <<>>]
    IN  IF b = <<>> THEN [ok |-> TRUE, items |-> <<>>] ELSE First(b[1])

\* The input is a short list whose declared body is the rest of the input
\* and is made of items.
ShortListOfItems ==
    /\ rlp.inp # <<>>
    /\ rlp.inp[1] \in ShortListRangeStart..ShortListRangeEnd
    /\ Len(rlp.inp) = 1 + (rlp.inp[1] - ShortListRangeStart)
    /\ BodyItems(SubSeq(rlp.inp, 2, Len(rlp.inp))).ok

\* C26: each item of a list is decoded by the kind its own first byte
\* gives: a list whose body holds byte strings and lists in any order
\* decodes to those items in that order.
C26_ItemKinds ==
    (RlpDecoded /\ ShortListOfItems) =>
        /\ rlp.status = "done"
        /\ rlp.item = ListItem(BodyItems(SubSeq(rlp.inp, 2, Len(rlp.inp))).items)

\* C27: for every input rlp.Decode returns an item or an error and never
\* indexes the input outside its bounds, also when the length bytes of a
\* long header are missing or cut short and when the declared body of a
\* list runs past the end of the input.
C27_NoOutOfBounds ==
    rlp.op = "Decode" =>
        /\ rlp.status # "panic"
        /\ \A i \in 1..Len(rlp.stack) :
              rlp.stack[i].listDataStartIndex <= Len(rlp.inp)

\* A call of the rlp package is in its item loop / has come to an end:
\* it returned an item or an error, or a panic ended it.
RlpRunning == rlp.status = "running"

RlpEnded == rlp.status \in {"done", "error", "panic"}

\* C28: rlp.Decode terminates on every input: a pass of the item loop that
\* does not end the call moves the index by at least one byte, so that
\* bytesRead grows strictly, and every call that is in its loop comes to an
\* end.
C28_Termination ==
    /\ [](rlp.iter.any =>
            (rlp.iter.advance >= 1 /\ rlp.iter.bytesRead > rlp.iter.was))
    /\ [](\A i \in 1..Len(rlp.stack) :
            rlp.stack[i].listDataStartIndex
                = rlp.stack[i].startIndex + rlp.stack[i].bytesRead)
    /\ (RlpRunning ~> RlpEnded)

C28_Witness ==
    /\ rlp.op = "Decode"
    /\ rlp.status = "done"
    /\ rlp.iter.any
    /\ rlp.item.t = "List"
    /\ Len(rlp.item.l) = 2

\* Two values were encoded one after another into the stream, which reached
\* the decoder unharmed, and call number `calls` of decoder.Decode() returned.
SuccessiveDecoded ==
    /\ out.op = "Decoder.Decode"
    /\ fault = NoFault
    /\ Len(sent) = 2
    /\ \A i \in 1..2 : sent[i].op = "Encode"

\* The bytes of the encodings of the first n values written.
EncodedUpTo(n) == IF n = 0 THEN 0
                  ELSE IF n = 1 THEN Len(EncodeValue(sent[1].arg))
                  ELSE Len(buf)

\* C29: when several values are encoded one after another into one stream,
\* successive decoder.Decode() calls on one decoder over that stream return
\* the values in the order written, each call consuming exactly the bytes of
\* one value's encoding.
C29_SuccessiveValues ==
    (SuccessiveDecoded /\ calls \in 1..2) =>
        /\ out.err = Nil
        /\ out.v = sent[calls].arg
        /\ out.pos = EncodedUpTo(calls)

\* C30: after any sequence of reads and writes, LocatedReader.Location() is
\* the total of the counts the underlying reader returned and never
\* decreases, and LengthyWriter.Len() is the total of the counts the
\* underlying writer reported, also after a call that returned an error
\* together with a non-zero count.
C30_Tallies ==
    /\ [](io.l.location = io.returned /\ io.w.length = io.reported)
    /\ [][io'.l.location >= io.l.location /\ io'.w.length >= io.w.length]_vars

C30_Witness ==
    /\ io.op = "Read"
    /\ io.err # Nil
    /\ io.n > 0
    /\ io.reported > 0
    /\ io.l.location > io.n
====
